---- MODULE Spec2Model ----
(***************************************************************************)
(* A model of bobappleyard/tp: the reflective grammar scanner, the Earley  *)
(* recognizer and the derivation builder of src/parser.go (the second,     *)
(* current revision of the file, lines 596-1228).                          *)
(*                                                                         *)
(* A Go type is a string, a symbol is identified with the type that keys   *)
(* it in scanner.types (ensure creates exactly one symbol per key), and a  *)
(* rule carries the serial number of its allocation (ptr) so that two      *)
(* rules with equal fields stay distinct, as two *rule pointers are.       *)
(***************************************************************************)
EXTENDS Integers, Sequences, FiniteSets, TLC

\* Longest token sequence handed to Parse with a generated rule object.
MaxToks == 3

\* Longest token sequence handed to Parse with one of the repository's grammars.
MaxTestToks == 7

\* Most rule methods on a generated rule object.
MaxGenRules == 2

\* Longest parameter list of a generated rule method.
MaxGenDeps == 2

(***************************************************************************)
(* The Go declarations the rule objects are written against: the types of  *)
(* the repository's grammar tests, and lit, a helper type that both        *)
(* implements expr and furnishes its own rules through Grammar().  nodeA   *)
(* and nodeB are two interfaces with the same method set, which leaf       *)
(* implements: each is assignable to the other.                            *)
(***************************************************************************)
NoType == "nil"

NoHost == "none"

TokenTypes == {"intTok", "plusTok"}

InterfaceTypes ==
  {"expr", "testTok", "re.expr", "re.run", "re.term", "nodeA", "nodeB"}

SliceTypes == {"[]intTok", "[]expr"}

\* reflect.Type.Kind, as far as the scanner asks: slice, interface, other.
Kind(t) ==
  IF t \in SliceTypes THEN "slice"
  ELSE IF t \in InterfaceTypes THEN "interface"
  ELSE "struct"

\* reflect.Type.Elem of a slice type.
Elem(t) ==
  IF t = "[]intTok" THEN "intTok"
  ELSE IF t = "[]expr" THEN "expr"
  ELSE NoType

\* The method sets: which concrete type carries which marker method.
Implementers(t) ==
  IF t = "expr" THEN {"add", "intVal", "lit"}
  ELSE IF t = "testTok" THEN {"intTok", "plusTok"}
  ELSE IF t = "nodeA" THEN {"nodeB", "leaf"}
  ELSE IF t = "nodeB" THEN {"nodeA", "leaf"}
  ELSE IF t = "re.term" THEN {"re.match", "re.nest"}
  ELSE IF t = "re.run"
  THEN {"re.term", "re.match", "re.nest", "re.empty", "re.seq", "re.repeat"}
  ELSE IF t = "re.expr"
  THEN {"re.run", "re.term", "re.match", "re.nest", "re.empty", "re.seq",
        "re.repeat", "re.choice"}
  ELSE {}

\* reflect.Type.AssignableTo.
AssignableTo(k, t) == k = t \/ k \in Implementers(t)

\* A rule method as reflection shows it: name, parameter types after the
\* receiver, first result type.
Rule(name, in, out) == [Name |-> name, In |-> in, Out |-> out]

\* key.MethodByName("Grammar"): the rule object a type's Grammar method
\* returns, its exported methods in reflection's (name) order.
GrammarOf(t) ==
  IF t = "optional" THEN
    [type |-> "optionalGrammar", root |-> NoType,
     methods |-> << Rule("ParseEmpty", <<>>, "optional"),
                    Rule("ParseOne", <<"plusTok">>, "optional") >>]
  ELSE IF t = "delimited" THEN
    [type |-> "delimGrammar", root |-> NoType,
     methods |-> << Rule("Many", <<"delimited", "plusTok", "intTok">>, "delimited"),
                    Rule("One", <<"intTok">>, "delimited") >>]
  ELSE IF t = "sliced" THEN
    [type |-> "slicedGrammar", root |-> NoType,
     methods |-> << Rule("Many", <<"intTok">>, "[]intTok") >>]
  ELSE IF t = "lit" THEN
    [type |-> "litGrammar", root |-> NoType,
     methods |-> << Rule("Lit", <<"intTok">>, "lit") >>]
  ELSE [type |-> NoHost, root |-> NoType, methods |-> <<>>]


(***************************************************************************)
(* Rule objects (the value g handed to Parse).  type is the rule object's  *)
(* Go type, root the type parameter U of Grammar[U, V], methods what       *)
(* reflect's Type.Method(i) enumerates: the exported methods sorted by     *)
(* name, so that a method's place in the list, less one, is Method.Index.  *)
(***************************************************************************)
ParseHook(root) == Rule("Parse", <<root>>, root)

\* src/unnamed/part_001: expr := Int(intTok) | Add(expr, plusTok, expr).
interfaceGrammar ==
  [type |-> "interfaceGrammar", root |-> "expr",
   methods |-> << Rule("Add", <<"expr", "plusTok", "expr">>, "add"),
                  Rule("Int", <<"intTok">>, "intVal"),
                  ParseHook("expr") >>]

\* src/lexer.go: the left-recursive nullable list.
nullableRuleset ==
  [type |-> "nullableRuleset", root |-> "intList",
   methods |-> << ParseHook("intList"),
                  Rule("ParseInt", <<"intList", "intTok">>, "intList"),
                  Rule("ParseNull", <<>>, "intList") >>]

\* src/lexer.go: the right-recursive nullable list.
nullableRightRuleset ==
  [type |-> "nullableRightRuleset", root |-> "intList",
   methods |-> << ParseHook("intList"),
                  Rule("ParseInt", <<"intTok", "intList">>, "intList"),
                  Rule("ParseNull", <<>>, "intList") >>]

\* src/lexer.go: a slice parameter.
sliceRuleset ==
  [type |-> "sliceRuleset", root |-> "intList",
   methods |-> << ParseHook("intList"),
                  Rule("ParseInts", <<"[]intTok">>, "intList") >>]

\* src/lexer.go: an optional suffix through a helper grammar.
optionalRuleset ==
  [type |-> "optionalRuleset", root |-> "intList",
   methods |-> << ParseHook("intList"),
                  Rule("ParseSentence", <<"intTok", "optional">>, "intList") >>]

\* src/grammar3_test.go: a delimited list through a recursive helper grammar.
reuseGrammar ==
  [type |-> "reuseGrammar", root |-> "intList",
   methods |-> << ParseHook("intList"),
                  Rule("Path", <<"delimited">>, "intList") >>]

\* Two producers of expr whose rules come from different rule objects and
\* so share Method.Index 0: Int on the rule object, Lit on lit's helper.
mixedGrammar ==
  [type |-> "mixedGrammar", root |-> "expr",
   methods |-> << Rule("Int", <<"intTok">>, "intVal"),
                  ParseHook("expr"),
                  Rule("Use", <<"lit", "plusTok">>, "add") >>]

\* A slice of a nonterminal.
exprListGrammar ==
  [type |-> "exprListGrammar", root |-> "intList",
   methods |-> << Rule("Int", <<"intTok">>, "intVal"),
                  Rule("List", <<"[]expr">>, "intList"),
                  ParseHook("intList") >>]

\* interfaceGrammar with rule methods that return (T, error): Int rejects
\* an integer above RejectAbove, and the Parse hook rejects a lone integer.
checkedGrammar ==
  [type |-> "checkedGrammar", root |-> "expr",
   methods |-> << Rule("Add", <<"expr", "plusTok", "expr">>, "add"),
                  Rule("Int", <<"intTok">>, "intVal"),
                  ParseHook("expr") >>]

\* src/regex.go: the rules of the regular expression syntax.  The types of
\* regex.go carry the prefix re. here; regexRules has no Parse method.
regexRules ==
  [type |-> "regexRules", root |-> "re.expr",
   methods |-> <<
     Rule("ParseChar", <<"char">>, "re.term"),
     Rule("ParseCharset", <<"charsetOpen", "re.charset", "charsetClose">>,
          "re.term"),
     Rule("ParseCharsetBar", <<"bar">>, "re.charset"),
     Rule("ParseCharsetChar", <<"char">>, "re.charset"),
     Rule("ParseCharsetChoice", <<"re.charset", "re.charset">>, "re.charset"),
     Rule("ParseCharsetDot", <<"dot">>, "re.charset"),
     Rule("ParseCharsetEsc", <<"slash">>, "re.charset"),
     Rule("ParseCharsetQuantity", <<"quantity">>, "re.charset"),
     Rule("ParseCharsetRange", <<"char", "charsetRange", "char">>, "re.charset"),
     Rule("ParseChoice", <<"re.run", "bar", "re.run">>, "re.choice"),
     Rule("ParseDot", <<"dot">>, "re.term"),
     Rule("ParseEscaped", <<"slash">>, "re.term"),
     Rule("ParseGroup", <<"groupOpen", "re.expr", "groupClose">>, "re.term"),
     Rule("ParseInverseCharset",
          <<"charsetOpen", "charsetInvert", "re.charset", "charsetClose">>,
          "re.term"),
     Rule("ParseMoreChoice", <<"re.choice", "bar", "re.run">>, "re.choice"),
     Rule("ParseQuantifier", <<"re.term", "quantity">>, "re.run"),
     Rule("ParseRange", <<"charsetRange">>, "re.term"),
     Rule("ParseSeq", <<"re.run", "re.run">>, "re.run") >>]

\* Rules that return two mutually assignable interfaces and a type that
\* implements both.
mutualGrammar ==
  [type |-> "mutualGrammar", root |-> "nodeA",
   methods |-> << Rule("Leaf", <<"intTok">>, "leaf"),
                  Rule("MakeA", <<"plusTok", "nodeB">>, "nodeA"),
                  Rule("MakeB", <<"intTok", "intTok">>, "nodeB"),
                  ParseHook("nodeA") >>]

\* The helper type of reuseGrammar in two rules of the rule object.
twiceGrammar ==
  [type |-> "twiceGrammar", root |-> "intList",
   methods |-> << Rule("Bare", <<"delimited">>, "intList"),
                  ParseHook("intList"),
                  Rule("Signed", <<"plusTok", "delimited">>, "intList") >>]

TestGrammars ==
  { interfaceGrammar, nullableRuleset, nullableRightRuleset, sliceRuleset,
    optionalRuleset, reuseGrammar, mixedGrammar, exprListGrammar,
    checkedGrammar, regexRules, mutualGrammar, twiceGrammar }


(***************************************************************************)
(* Helpers.                                                                *)
(***************************************************************************)
Contains(seq, x) == \E i \in 1..Len(seq) : seq[i] = x

\* Every order in which a range loop over a map may visit the keys S.
RangeOrders(S) ==
  { o \in [1..Cardinality(S) -> S] : \A x \in S : \E i \in DOMAIN o : o[i] = x }

RECURSIVE Concat(_, _)
\* seqOf[o[1]] \o seqOf[o[2]] \o ...
Concat(seqOf, o) ==
  IF o = <<>> THEN <<>> ELSE seqOf[Head(o)] \o Concat(seqOf, Tail(o))

(***************************************************************************)
(* The scanner.  sc is the scanner struct together with what a run of it   *)
(* leaves behind: types is scanner.types, host the rule object's type,     *)
(* next the number of rules allocated so far, panicked whether scanMethods *)
(* panicked, grammarCalls the types whose Grammar method was invoked.      *)
(***************************************************************************)
NewSymbol == [Nullable |-> FALSE, TokenType |-> NoType, Predictions |-> <<>>]

NewScanner(g) ==
  [types |-> << >>, host |-> g.type, next |-> 0, panicked |-> FALSE,
   grammarCalls |-> <<>>]

\* s.types[key] = v
PutSymbol(types, key, v) ==
  [k \in DOMAIN types \cup {key} |-> IF k = key THEN v ELSE types[k]]

\* append(sym.Predictions, &rule{...}): the rule is a fresh allocation.
AddRule(sc, key, r) ==
  [sc EXCEPT !.types[key].Predictions = Append(@, [r EXCEPT !.ptr = sc.next]),
             !.next = @ + 1]

\* The test scanMethods never makes.
SliceResultNever(m) == FALSE

\* if m.Type.Out(0).Kind() == reflect.Slice
SliceResult(m) == Kind(m.Out) = "slice"

RECURSIVE ensure(_, _), scanMethodsFrom(_, _, _), ensureDeps(_, _, _)

\* The two rules of a slice symbol: slice -> (nothing), slice -> slice elem.
sliceTypeSymbol(sc, slice) ==
  LET elem == Elem(slice)
      s1 == ensure(sc, elem)
      nilRule == [Implements |-> slice, Deps |-> <<>>, Host |-> s1.host,
                  Name |-> "nil", Index |-> -1, Method |-> "nil", ptr |-> 0]
      appendRule == [Implements |-> slice, Deps |-> <<slice, elem>>,
                     Host |-> s1.host, Name |-> "append", Index |-> -1,
                     Method |-> "append", ptr |-> 0]
  IN IF s1.panicked THEN s1
     ELSE AddRule(AddRule(s1, slice, nilRule), slice, appendRule)

\* The loop of scanMethods from method i (0-based, as Method.Index) down to 0.
scanMethodsFrom(sc, host, i) ==
  IF i < 0 \/ sc.panicked THEN sc
  ELSE LET m == host.methods[i + 1]
       IN IF m.Name = "Parse" THEN scanMethodsFrom(sc, host, i - 1)
          ELSE LET s1 == ensureDeps(sc, m.In, Len(m.In))
               IN IF s1.panicked THEN s1
                  ELSE IF SliceResult(m)
                  THEN [s1 EXCEPT !.panicked = TRUE]
                  ELSE LET s2 == ensure(s1, m.Out)
                           r == [Implements |-> m.Out, Deps |-> m.In,
                                 Host |-> host.type, Name |-> m.Name,
                                 Index |-> i, Method |-> "call", ptr |-> 0]
                       IN IF s2.panicked THEN s2
                          ELSE scanMethodsFrom(AddRule(s2, m.Out, r), host, i - 1)

\* deps[i-1] = s.ensure(m.Type.In(i)) for i from NumIn-1 down to 1.
ensureDeps(sc, in, i) ==
  IF i < 1 \/ sc.panicked THEN sc
  ELSE ensureDeps(ensure(sc, in[i]), in, i - 1)

scanMethods(sc, host) == scanMethodsFrom(sc, host, Len(host.methods) - 1)

\* ensure with a second scan of the rule object of a type that has been
\* scanned once.
ensureTwice(sc, key) ==
  IF sc.panicked THEN sc
  ELSE IF key \in DOMAIN sc.types
  THEN IF /\ GrammarOf(key).type # NoHost
          /\ Len(SelectSeq(sc.grammarCalls, LAMBDA t : t = key)) = 1
       THEN scanMethods([sc EXCEPT !.grammarCalls = Append(@, key)],
                        GrammarOf(key))
       ELSE sc
  ELSE LET s1 == [sc EXCEPT !.types = PutSymbol(@, key, NewSymbol)]
       IN IF Kind(key) = "slice" THEN sliceTypeSymbol(s1, key)
          ELSE IF GrammarOf(key).type # NoHost
          THEN scanMethods([s1 EXCEPT !.grammarCalls = Append(@, key)],
                           GrammarOf(key))
          ELSE s1

ensure(sc, key) ==
  IF sc.panicked \/ key \in DOMAIN sc.types THEN sc
  ELSE LET s1 == [sc EXCEPT !.types = PutSymbol(@, key, NewSymbol)]
       IN IF Kind(key) = "slice" THEN sliceTypeSymbol(s1, key)
          ELSE IF GrammarOf(key).type # NoHost
          THEN scanMethods([s1 EXCEPT !.grammarCalls = Append(@, key)],
                           GrammarOf(key))
          ELSE s1


(***************************************************************************)
(* Nullability.  queue[T] is the worklist of markNullableTypes: Enqueue    *)
(* adds at the back, and the loop over All() takes from the front until    *)
(* nothing is left, what was enqueued during the loop included.            *)
(***************************************************************************)
Enqueue(q, x) == Append(q, x)

\* The rules of every symbol, symbols in the order the range loop visits them.
RulesInOrder(types, order) ==
  Concat([k \in DOMAIN types |-> types[k].Predictions], order)

RECURSIVE RepeatRule(_, _)
RepeatRule(r, n) == IF n = 0 THEN <<>> ELSE <<r>> \o RepeatRule(r, n - 1)

RECURSIVE UsersOf(_, _)
\* symUsers[s]: a rule once for each place s takes in its Deps.
UsersOf(rules, s) ==
  IF rules = <<>> THEN <<>>
  ELSE LET r == Head(rules)
           n == Cardinality({i \in 1..Len(r.Deps) : r.Deps[i] = s})
       IN RepeatRule(r, n) \o UsersOf(Tail(rules), s)

RECURSIVE SeedNullable(_, _)
\* The first loop: a symbol with a rule without Deps is nullable and queued
\* (once for each such rule).  The state is [types, q].
SeedNullable(st, rules) ==
  IF rules = <<>> THEN st
  ELSE LET r == Head(rules)
       IN IF Len(r.Deps) = 0
          THEN SeedNullable(
                 [types |-> [st.types EXCEPT ![r.Implements].Nullable = TRUE],
                  q |-> Enqueue(st.q, r.Implements)], Tail(rules))
          ELSE SeedNullable(st, Tail(rules))

AllDepsNullable(types, r) == \A i \in 1..Len(r.Deps) : types[r.Deps[i]].Nullable

RECURSIVE MarkUsers(_, _)
\* The inner loop over symUsers[next].
MarkUsers(st, users) ==
  IF users = <<>> THEN st
  ELSE LET r == Head(users)
       IN IF st.types[r.Implements].Nullable \/ ~AllDepsNullable(st.types, r)
          THEN MarkUsers(st, Tail(users))
          ELSE MarkUsers(
                 [types |-> [st.types EXCEPT ![r.Implements].Nullable = TRUE],
                  q |-> Enqueue(st.q, r.Implements)], Tail(users))

RECURSIVE DrainNullable(_, _)
\* for next := range needsWork.All()
DrainNullable(st, rules) ==
  IF st.q = <<>> THEN st.types
  ELSE DrainNullable(
         MarkUsers([types |-> st.types, q |-> Tail(st.q)],
                   UsersOf(rules, Head(st.q))), rules)

\* markNullableTypes, the range over s.types taken in the given order.
markNullableTypes(types, order) ==
  LET rules == RulesInOrder(types, order)
  IN DrainNullable(SeedNullable([types |-> types, q |-> <<>>], rules), rules)

(***************************************************************************)
(* Interface expansion.  f is [types, itfs, next]; each of the operators   *)
(* yields the set of states the loops can end in, one for each order in    *)
(* which a range over s.types may run.  A key the loop body skips leaves   *)
(* no trace, so only the order of the keys it does not skip is drawn.      *)
(* filled lists the interfaces needsFilling has answered true for.         *)
(***************************************************************************)
RemoveAt(seq, i) == SubSeq(seq, 1, i - 1) \o SubSeq(seq, i + 1, Len(seq))

IndexOf(seq, x) == CHOOSE i \in 1..Len(seq) : seq[i] = x /\ \A j \in 1..(i - 1) : seq[j] # x

\* needsFilling: todo is still in *itfs; it is taken out.
needsFilling(itfs, todo) == Contains(itfs, todo)

RECURSIVE CopyRulesButLast(_, _, _)
\* The copies with the last rule of rs left out.
CopyRulesButLast(f, todo, rs) ==
  IF Len(rs) <= 1 THEN f
  ELSE LET r == Head(rs)
           c == [r EXCEPT !.Implements = todo, !.ptr = f.next]
       IN CopyRulesButLast([f EXCEPT !.types[todo].Predictions = Append(@, c),
                                     !.next = @ + 1], todo, Tail(rs))

RECURSIVE CopyRules(_, _, _)
\* The copies of the rules rs appended to todo's Predictions.
CopyRules(f, todo, rs) ==
  IF rs = <<>> THEN f
  ELSE LET r == Head(rs)
           c == [r EXCEPT !.Implements = todo, !.ptr = f.next]
       IN CopyRules([f EXCEPT !.types[todo].Predictions = Append(@, c),
                              !.next = @ + 1], todo, Tail(rs))

RECURSIVE fillOutInterface(_, _), FillFrom(_, _, _)

\* The body of the range loop for the keys in order, from the first on.
FillFrom(f, todo, order) ==
  IF order = <<>> THEN {f}
  ELSE LET k == Head(order)
           filled == IF Kind(k) = "interface" THEN fillOutInterface(f, k) ELSE {f}
       IN UNION { FillFrom(CopyRules(h, todo, h.types[k].Predictions), todo,
                           Tail(order)) : h \in filled }

fillOutInterface(f, todo) ==
  IF ~needsFilling(f.itfs, todo) THEN {f}
  ELSE LET f1 == [f EXCEPT !.itfs = RemoveAt(@, IndexOf(@, todo)),
                           !.filled = Append(@, todo)]
           keys == {k \in DOMAIN f.types : k # todo /\ AssignableTo(k, todo)}
       IN UNION { FillFrom(f1, todo, order) : order \in RangeOrders(keys) }

RECURSIVE FillAll(_)
\* for len(itfs) != 0 { s.fillOutInterface(&itfs, itfs[0]) }
FillAll(f) ==
  IF f.itfs = <<>> THEN {f}
  ELSE UNION { FillAll(h) : h \in fillOutInterface(f, f.itfs[1]) }

\* fillOutInterfaces: every outcome, as [types, next, filled].
fillOutInterfaces(types, next) ==
  LET itfKeys == {k \in DOMAIN types : Kind(k) = "interface"}
  IN UNION { { [types |-> h.types, next |-> h.next, filled |-> h.filled] :
               h \in FillAll([types |-> types, itfs |-> order, next |-> next,
                              filled |-> <<>>]) } :
             order \in RangeOrders(itfKeys) }

\* A changed markTokenTypes: a symbol with one rule is tagged as well.
markTokenTypesOneRule(types) ==
  [k \in DOMAIN types |->
     IF Len(types[k].Predictions) <= 1
     THEN [types[k] EXCEPT !.TokenType = k]
     ELSE types[k]]

\* markTokenTypes: a symbol without rules stands for the tokens of its type.
markTokenTypes(types) ==
  [k \in DOMAIN types |->
     IF Len(types[k].Predictions) = 0
     THEN [types[k] EXCEPT !.TokenType = k]
     ELSE types[k]]


(***************************************************************************)
(* The recognizer.  G is the published symbol graph (scanner.types after   *)
(* the scan), a matcher m is [root, state, toks, cur]; item set k of the   *)
(* source is state[k + 1] here.                                            *)
(***************************************************************************)
Item(r, position, progress) ==
  [rule |-> r, position |-> position, progress |-> progress]

\* item.complete
complete(x) == x.progress = Len(x.rule.Deps)

\* item.nextSymbol, where the item is not complete.
nextSymbol(x) == x.rule.Deps[x.progress + 1]

makeProgress(x) == Item(x.rule, x.position, x.progress + 1)

\* addTo without the test: the item is appended whatever the set holds.
addToAlways(m, pos, x) == [m EXCEPT !.state[pos + 1] = Append(@, x)]

\* addTo comparing with the last item of the set only.
addToUnlessLast(m, pos, x) ==
  LET set == m.state[pos + 1]
  IN IF set # <<>> /\ set[Len(set)] = x THEN m
     ELSE [m EXCEPT !.state[pos + 1] = Append(@, x)]

\* matcher.addTo: append unless the set holds an equal item.
addTo(m, pos, x) ==
  IF Contains(m.state[pos + 1], x) THEN m
  ELSE [m EXCEPT !.state[pos + 1] = Append(@, x)]

addToCur(m, x) == addTo(m, m.cur, x)

addToNext(m, x) == addTo(m, m.cur + 1, x)

RECURSIVE PredictFrom(_, _)
PredictFrom(m, rs) ==
  IF rs = <<>> THEN m
  ELSE PredictFrom(addToCur(m, Item(Head(rs), m.cur, 0)), Tail(rs))

\* matcher.predict
predict(G, m, s) == PredictFrom(m, G[s].Predictions)

\* matcher.advance
advance(m, x) == addToCur(m, makeProgress(x))

\* matcher.scan
scanItem(m, x) == addToNext(m, makeProgress(x))

RECURSIVE CompleteOver(_, _, _)
CompleteOver(m, x, ys) ==
  IF ys = <<>> THEN m
  ELSE LET y == Head(ys)
       IN IF ~complete(y) /\ nextSymbol(y) = x.rule.Implements
          THEN CompleteOver(addToCur(m, makeProgress(y)), x, Tail(ys))
          ELSE CompleteOver(m, x, Tail(ys))

\* matcher.complete: the range runs over the set as it is when the loop starts.
completeItem(m, x) == CompleteOver(m, x, m.state[x.position + 1])

\* A changed TokenFits: the token's type is not looked at.
TokenFitsAlways(G, tok, next) == TRUE

\* tok.Type().AssignableTo(next.TokenType)
TokenFits(G, tok, next) == AssignableTo(tok.type, G[next].TokenType)

RECURSIVE StepFrom(_, _, _, _)
\* The loop of matcher.step from index i (1-based) of the current set.
StepFrom(G, m, tok, i) ==
  IF i > Len(m.state[m.cur + 1]) THEN m
  ELSE LET x == m.state[m.cur + 1][i]
       IN IF complete(x) THEN StepFrom(G, completeItem(m, x), tok, i + 1)
          ELSE LET next == nextSymbol(x)
               IN IF G[next].TokenType # NoType
                  THEN IF TokenFits(G, tok, next)
                       THEN StepFrom(G, scanItem(m, x), tok, i + 1)
                       ELSE StepFrom(G, m, tok, i + 1)
                  ELSE LET m1 == IF G[next].Nullable THEN advance(m, x) ELSE m
                       IN StepFrom(G, predict(G, m1, next), tok, i + 1)

\* step with a new start from an empty item set: the rules of the root are
\* predicted into the next one.
stepRestart(G, m, tok) ==
  IF m.state[m.cur + 1] = <<>>
  THEN [PredictFrom([m EXCEPT !.cur = @ + 1], G[m.root].Predictions)
          EXCEPT !.cur = m.cur]
  ELSE StepFrom(G, m, tok, 1)

step(G, m, tok) == StepFrom(G, m, tok, 1)

RECURSIVE FinalStepFrom(_, _, _)
FinalStepFrom(G, m, i) ==
  IF i > Len(m.state[m.cur + 1]) THEN m
  ELSE LET x == m.state[m.cur + 1][i]
       IN IF complete(x) THEN FinalStepFrom(G, completeItem(m, x), i + 1)
          ELSE LET next == nextSymbol(x)
               IN IF G[next].Nullable
                  THEN FinalStepFrom(G, predict(G, advance(m, x), next), i + 1)
                  ELSE FinalStepFrom(G, m, i + 1)

finalStep(G, m) == FinalStepFrom(G, m, 1)

\* The errors of the package.
NoToken == [type |-> NoType, val |-> 0]

NoErr == [kind |-> "nil", token |-> NoToken]

ErrUnexpectedToken(tok) == [kind |-> "ErrUnexpectedToken", token |-> tok]

ErrUnexpectedEOF == [kind |-> "ErrUnexpectedEOF", token |-> NoToken]

ErrFailedMatch == [kind |-> "ErrFailedMatch", token |-> NoToken]

\* The error a rule method or a Parse hook of the rule object returns.
ErrRejected(v) ==
  [kind |-> "ErrRejected", token |-> [type |-> v.name, val |-> v.val]]

\* The item the second loop of matches looks for.
Accepting(x, root) ==
  x.rule.Implements = root /\ x.position = 0 /\ complete(x)

\* matches reporting the last token whenever the last set is empty.
matchesLastToken(m, root) ==
  LET n == Len(m.state)
  IN IF Len(m.state[n]) = 0 /\ n > 1
     THEN ErrUnexpectedToken(m.toks[n - 1])
     ELSE IF \E i \in 1..Len(m.state[n]) : Accepting(m.state[n][i], root)
     THEN NoErr
     ELSE ErrUnexpectedEOF

\* matches without the test that the last set is empty: an input that is not
\* accepted is blamed on its last token.
matchesNoEmptyTest(m, root) ==
  LET n == Len(m.state)
      empties == {i \in 0..(n - 2) : Len(m.state[i + 2]) = 0}
      first == CHOOSE i \in empties : \A j \in empties : i <= j
  IN IF \E i \in 1..Len(m.state[n]) : Accepting(m.state[n][i], root)
     THEN NoErr
     ELSE IF empties # {}
     THEN ErrUnexpectedToken(m.toks[first + 1])
     ELSE IF n > 1
     THEN ErrUnexpectedToken(m.toks[n - 1])
     ELSE ErrUnexpectedEOF

\* matches without the test of the item's origin.
matchesAnyOrigin(m, root) ==
  LET n == Len(m.state)
      empties == {i \in 0..(n - 2) : Len(m.state[i + 2]) = 0}
      first == CHOOSE i \in empties : \A j \in empties : i <= j
  IN IF Len(m.state[n]) = 0 /\ empties # {}
     THEN ErrUnexpectedToken(m.toks[first + 1])
     ELSE IF \E i \in 1..Len(m.state[n]) :
               /\ m.state[n][i].rule.Implements = root
               /\ complete(m.state[n][i])
     THEN NoErr
     ELSE ErrUnexpectedEOF

\* matcher.matches
matches(m, root) ==
  LET n == Len(m.state)
      empties == {i \in 0..(n - 2) : Len(m.state[i + 2]) = 0}
      first == CHOOSE i \in empties : \A j \in empties : i <= j
  IN IF Len(m.state[n]) = 0 /\ empties # {}
     THEN ErrUnexpectedToken(m.toks[first + 1])
     ELSE IF \E i \in 1..Len(m.state[n]) : Accepting(m.state[n][i], root)
     THEN NoErr
     ELSE ErrUnexpectedEOF


(***************************************************************************)
(* The builder.  b is [root, state, seen]: state[p + 1] lists the          *)
(* completed items that begin at p, their position field now holding the   *)
(* set they were found in (where they end).                                *)
(***************************************************************************)
\* The items of set i (0-based) the inner loop of flipState appends to
\* flipped[p]: the completed ones that began at p, in the order of the set,
\* position now i.
FlippedTo(set, p, i) ==
  LET done == SelectSeq(set, LAMBDA x : complete(x) /\ x.position = p)
  IN [k \in 1..Len(done) |-> Item(done[k].rule, i, done[k].progress)]

\* The inner loop of flipState over the items of set i (0-based).
FlipSet(flipped, set, i) ==
  [p \in 1..Len(flipped) |-> flipped[p] \o FlippedTo(set, p - 1, i)]

RECURSIVE FlipFrom(_, _, _)
FlipFrom(flipped, state, i) ==
  IF i >= Len(state) THEN flipped
  ELSE FlipFrom(FlipSet(flipped, state[i + 1], i), state, i + 1)

\* matcher.flipState
flipState(m) == FlipFrom([i \in 1..Len(m.state) |-> <<>>], m.state, 0)

\* The comparison with its keys swapped: end position first, rule index second.
SortCmpEndFirst(a, b) ==
  IF a.position = b.position THEN a.rule.Index - b.rule.Index
  ELSE a.position - b.position

\* The comparison with the rule index descending.
SortCmpIndexDescending(a, b) ==
  IF a.rule.Index = b.rule.Index THEN a.position - b.position
  ELSE b.rule.Index - a.rule.Index

\* The comparison handed to slices.SortFunc.
SortCmp(a, b) ==
  IF a.rule.Index = b.rule.Index THEN a.position - b.position
  ELSE a.rule.Index - b.rule.Index

RECURSIVE InsertFrom(_, _)
\* One pass of the insertion: the element at j moves left while it compares
\* below its left neighbour.
InsertFrom(s, j) ==
  IF j > 1 /\ SortCmp(s[j], s[j - 1]) < 0
  THEN InsertFrom([s EXCEPT ![j] = s[j - 1], ![j - 1] = s[j]], j - 1)
  ELSE s

RECURSIVE SortFrom(_, _)
SortFrom(s, i) == IF i > Len(s) THEN s ELSE SortFrom(InsertFrom(s, i), i + 1)

\* slices.SortFunc on a list of at most twelve elements: the insertion sort
\* of the Go library, which keeps elements that compare equal in their order.
SortFunc(s) == SortFrom(s, 2)

\* matcher.builder
builder(m) ==
  LET flipped == flipState(m)
  IN [root |-> m.root,
      state |-> [i \in 1..Len(flipped) |-> SortFunc(flipped[i])],
      seen |-> m.toks]

NoRule ==
  [Implements |-> NoType, Deps |-> <<>>, Host |-> NoHost, Name |-> "",
   Index |-> 0, Method |-> "", ptr |-> -1]

NoItem == Item(NoRule, 0, 0)

\* span{item: x, at: at, children: children}
RuleSpan(x, at, children) ==
  [isTok |-> FALSE, item |-> x, at |-> at, value |-> NoToken,
   children |-> children]

\* span{value: tok, at: at}
TokSpan(tok, at) ==
  [isTok |-> TRUE, item |-> NoItem, at |-> at, value |-> tok, children |-> <<>>]

\* What a search returns: the spans and ok, or overflow where the search
\* calls itself with the arguments of a call it is still inside, which in
\* the program is a recursion without end (the goroutine's stack overflows).
Found(spans) == [ok |-> TRUE, overflow |-> FALSE, spans |-> spans]

NotFound == [ok |-> FALSE, overflow |-> FALSE, spans |-> <<>>]

Overflow == [ok |-> FALSE, overflow |-> TRUE, spans |-> <<>>]

RECURSIVE findSpan(_, _, _, _, _), findSpanChildren(_, _, _, _, _, _),
          RuleSpanFrom(_, _, _, _, _, _, _)

\* builder.findSpan; active holds the <<item, at>> of the calls of findSpan
\* that have not returned.
findSpan(G, b, x, at, active) ==
  IF <<x, at>> \in active THEN Overflow
  ELSE LET c == findSpanChildren(G, b, x.rule.Deps, at, x.position,
                                 active \cup {<<x, at>>})
       IN IF c.overflow THEN Overflow
          ELSE IF ~c.ok THEN NotFound
          ELSE Found(<<RuleSpan(x, at, c.spans)>>)

\* tokenSpan with the first token of the input put in every span.
tokenSpanFirst(G, b, deps, at, end, active) ==
  IF at >= Len(b.seen) THEN NotFound
  ELSE IF AssignableTo(b.seen[at + 1].type, G[deps[1]].TokenType)
  THEN LET next == findSpanChildren(G, b, Tail(deps), at + 1, end, active)
       IN IF next.overflow THEN Overflow
          ELSE IF next.ok
          THEN Found(<<TokSpan(b.seen[1], at)>> \o next.spans)
          ELSE NotFound
  ELSE NotFound

\* builder.tokenSpan
tokenSpan(G, b, deps, at, end, active) ==
  IF at >= Len(b.seen) THEN NotFound
  ELSE IF AssignableTo(b.seen[at + 1].type, G[deps[1]].TokenType)
  THEN LET next == findSpanChildren(G, b, Tail(deps), at + 1, end, active)
       IN IF next.overflow THEN Overflow
          ELSE IF next.ok
          THEN Found(<<TokSpan(b.seen[at + 1], at)>> \o next.spans)
          ELSE NotFound
  ELSE NotFound

\* The loop of builder.ruleSpan over the candidates from the first on.
RuleSpanFrom(G, b, deps, at, end, cands, active) ==
  IF cands = <<>> THEN NotFound
  ELSE LET found == Head(cands)
           next == findSpanChildren(G, b, Tail(deps), found.position,
                                    end, active)
       IN IF next.overflow THEN Overflow
          ELSE IF ~next.ok
          THEN RuleSpanFrom(G, b, deps, at, end, Tail(cands), active)
          ELSE LET inner == findSpan(G, b, found, at, active)
               IN IF inner.overflow THEN Overflow
                  ELSE IF ~inner.ok
                  THEN RuleSpanFrom(G, b, deps, at, end, Tail(cands),
                                    active)
                  ELSE Found(inner.spans \o next.spans)

\* The candidates taken from the last to the first.
CandidatesLastFirst(b, deps, at) ==
  LET c == SelectSeq(b.state[at + 1],
                     LAMBDA found : found.rule.Implements = deps[1])
  IN [k \in 1..Len(c) |-> c[Len(c) + 1 - k]]

\* The items of b.state[at] the loop of builder.ruleSpan does not skip:
\* if found.rule.Implements != deps[0] { continue }.
Candidates(b, deps, at) ==
  SelectSeq(b.state[at + 1], LAMBDA found : found.rule.Implements = deps[1])

\* builder.ruleSpan
ruleSpan(G, b, deps, at, end, active) ==
  RuleSpanFrom(G, b, deps, at, end, Candidates(b, deps, at), active)

findSpanChildren(G, b, deps, at, end, active) ==
  IF Len(deps) = 0 THEN (IF at = end THEN Found(<<>>) ELSE NotFound)
  ELSE IF G[deps[1]].TokenType # NoType
  THEN tokenSpan(G, b, deps, at, end, active)
  ELSE ruleSpan(G, b, deps, at, end, active)

\* The items builder.build may start from, in the order it meets them.
Tops(b) ==
  SelectSeq(b.state[1],
            LAMBDA top : top.rule.Implements = b.root /\ top.position = Len(b.seen))

\* The search of builder.build: only the first top is tried.
build(G, b) ==
  IF Tops(b) = <<>> THEN NotFound
  ELSE findSpan(G, b, Tops(b)[1], 0, {})

(***************************************************************************)
(* Values.  A rule method is opaque: its result is the term of its name    *)
(* over its arguments.  The two slice rules are the scanner's own.         *)
(***************************************************************************)
\* The zero value of the result type.
NoValue == [kind |-> "zero", name |-> "", host |-> NoHost, val |-> 0, args |-> <<>>]

\* A changed TokValue: the token's value is lost.
TokValueBlank(tok) ==
  [kind |-> "tok", name |-> tok.type, host |-> NoHost, val |-> 0,
   args |-> <<>>]

TokValue(tok) ==
  [kind |-> "tok", name |-> tok.type, host |-> NoHost, val |-> tok.val,
   args |-> <<>>]

SliceValue(elems) ==
  [kind |-> "slice", name |-> "", host |-> NoHost, val |-> 0, args |-> elems]

NodeValue(r, args) ==
  [kind |-> "node", name |-> r.Name, host |-> r.Host, val |-> 0, args |-> args]

\* The call with the accumulating rule putting the new element in front.
CallMethodPrepend(r, args) ==
  IF r.Method = "nil" THEN SliceValue(<<>>)
  ELSE IF r.Method = "append" THEN SliceValue(<<args[2]>> \o args[1].args)
  ELSE NodeValue(r, args)

\* rule.Method applied to the children's values (args[0], the host, left out).
CallMethod(r, args) ==
  IF r.Method = "nil" THEN SliceValue(<<>>)
  ELSE IF r.Method = "append" THEN SliceValue(Append(args[1].args, args[2]))
  ELSE NodeValue(r, args)

\* The greatest integer checkedGrammar.Int accepts.
RejectAbove == 2

\* rets[1] of rule.Method: the error the rule method returns, nil for a
\* method with one result.
MethodErr(r, args) ==
  IF r.Host = "checkedGrammar" /\ r.Name = "Int" /\ args[1].val > RejectAbove
  THEN ErrRejected(args[1])
  ELSE NoErr

\* g.Parse(root): the hook hands the value on, or returns its error with
\* the zero value.
Hook(ro, v) ==
  IF ro.type = "checkedGrammar" /\ v.name = "Int"
  THEN [value |-> NoValue, err |-> ErrRejected(v)]
  ELSE [value |-> v, err |-> NoErr]

\* One entry of the log of what Parse invoked.
Called(kind, name, e) == [kind |-> kind, name |-> name, err |-> e]

\* if err != nil, of a child's buildFromSpan.
ChildFailedNever(c) == FALSE

ChildFailed(c) == c.err # NoErr

\* buildFromSpan, as [value, err, calls]: calls lists the rule methods
\* invoked, in the order of their invocation, each with the error it
\* returned.
RECURSIVE buildFromSpan(_), BuildArgs(_, _, _)
\* for i, c := range s.children { ... } from child i on; acc is
\* [args, err, calls].
BuildArgs(children, i, acc) ==
  IF i > Len(children) THEN acc
  ELSE LET c == buildFromSpan(children[i])
           calls == acc.calls \o c.calls
       IN IF ChildFailed(c)
          THEN [args |-> acc.args, err |-> c.err, calls |-> calls]
          ELSE BuildArgs(children, i + 1,
                         [args |-> Append(acc.args, c.value), err |-> NoErr,
                          calls |-> calls])

buildFromSpan(s) ==
  IF s.isTok THEN [value |-> TokValue(s.value), err |-> NoErr, calls |-> <<>>]
  ELSE LET r == s.item.rule
           a == BuildArgs(s.children, 1,
                          [args |-> <<>>, err |-> NoErr, calls |-> <<>>])
           e == MethodErr(r, a.args)
           calls == Append(a.calls, Called("action", r.Name, e))
       IN IF a.err # NoErr
          THEN [value |-> NoValue, err |-> a.err, calls |-> a.calls]
          ELSE IF e # NoErr
          THEN [value |-> NoValue, err |-> e, calls |-> calls]
          ELSE [value |-> CallMethod(r, a.args), err |-> NoErr, calls |-> calls]

\* b.buildFromSpan(span) and, when it returns no error, the Parse hook:
\* what Parse returns, and what it invoked on the way.
Evaluate(ro, s) ==
  LET r == buildFromSpan(s)
      h == Hook(ro, r.value)
  IN IF r.err # NoErr
     THEN [value |-> NoValue, err |-> r.err, calls |-> r.calls]
     ELSE [value |-> h.value, err |-> h.err,
           calls |-> Append(r.calls, Called("hook", "Parse", h.err))]


(***************************************************************************)
(* scanner.scan: every symbol graph a scan of g can end with.  The range   *)
(* loop of markNullableTypes does nothing for a symbol without rules, so   *)
(* its order is drawn over the symbols that have some.                     *)
(***************************************************************************)
scan(g) ==
  LET s1 == scanMethods(ensure(NewScanner(g), g.root), g)
      withRules == {k \in DOMAIN s1.types : Len(s1.types[k].Predictions) > 0}
  IN IF s1.panicked
     THEN { [panicked |-> TRUE, types |-> s1.types,
             grammarCalls |-> s1.grammarCalls] }
     ELSE UNION { { [panicked |-> FALSE, types |-> markTokenTypes(f.types),
                     grammarCalls |-> s1.grammarCalls] :
                    f \in fillOutInterfaces(markNullableTypes(s1.types, order),
                                            s1.next) } :
                  order \in RangeOrders(withRules) }

(***************************************************************************)
(* The inputs of Parse.                                                    *)
(***************************************************************************)
\* The sequences of n tokens of the types T; a token's value is its place
\* in the input.
TokensOver(T, n) ==
  { [i \in 1..n |-> [type |-> ts[i], val |-> i]] : ts \in [1..n -> T] }

TokensOfLen(n) == TokensOver(TokenTypes, n)

\* The tokens the regular expressions parsed are made of.
RegexTokenTypes == {"char", "bar"}

\* The longest input with parentheses.
MaxGroupToks == 3

\* The tokens of the short expressions with groups.
GroupTokenTypes == {"char", "groupOpen", "groupClose"}

\* What Parse is handed with a rule object: the repository's own grammars
\* are run on longer inputs than the generated ones.
InputsFor(ruleObject) ==
  IF ruleObject = regexRules
  THEN UNION { TokensOver(RegexTokenTypes, n) : n \in 0..MaxTestToks }
         \cup UNION { TokensOver(GroupTokenTypes, n) : n \in 0..MaxGroupToks }
  ELSE IF ruleObject \in TestGrammars
  THEN UNION { TokensOfLen(n) : n \in 0..MaxTestToks }
  ELSE UNION { TokensOfLen(n) : n \in 0..MaxToks }

(***************************************************************************)
(* Generated rule objects: every list of up to MaxGenRules rule methods    *)
(* M1, M2, ... (which sort before Parse) with up to MaxGenDeps parameters  *)
(* each, for either root type.                                             *)
(***************************************************************************)
GenOutTypes == {"intList", "intVal"}

GenDepTypes == {"intTok", "plusTok", "expr", "intList"}

GenRoots == {"intList", "expr"}

GenNames == <<"M1", "M2", "M3", "M4", "M5">>

GenIns == UNION { [1..n -> GenDepTypes] : n \in 0..MaxGenDeps }

GenMethodLists ==
  UNION { { [i \in 1..n |-> Rule(GenNames[i], ins[i], outs[i])] :
            ins \in [1..n -> GenIns], outs \in [1..n -> GenOutTypes] } :
          n \in 1..MaxGenRules }

GenGrammars ==
  { [type |-> "genGrammar", root |-> root,
     methods |-> Append(ms, ParseHook(root))] :
    ms \in GenMethodLists, root \in GenRoots }

Grammars == TestGrammars \cup GenGrammars

(***************************************************************************)
(* The state of one call Parse(g, toks).                                   *)
(***************************************************************************)
VARIABLES
  g,        \* the rule object
  pc,       \* where Parse is
  G,        \* the symbol graph scanGrammar returned
  m,        \* the matcher
  err,      \* the error Parse returns
  b,        \* the builder
  tree,     \* the span build found
  result,   \* the value Parse returns
  calls     \* the rule methods and the hook Parse has invoked

\* The state of one lexer and of one stream over it.
VARIABLES
  lex,      \* the Lexer: its transitions, final states and maxState
  stream,   \* the Stream: src, srcPos, this, next, tok, err
  lpc,      \* where the stream's user is
  hist,     \* what each call of Next did, in call order
  forced    \* what Force returned

\* The package's grammar cache and the goroutines that call scanGrammar.
VARIABLES
  cache,    \* var cache: rule object type -> root symbol
  lock,     \* var lock: the goroutine holding it, 0 when free
  heap,     \* the scanners allocated so far, each with its symbols
  procs,    \* each goroutine: where it is and what it holds
  rets      \* the (type, root) pairs scanGrammar has returned

\* One regular expression on its way into a lexer, or one character set on
\* its way through inverse.
VARIABLES
  rpc,      \* what is at work, and how far it is
  re,       \* the expression tree
  cs,       \* the character set
  rprog,    \* the lexer the expression is compiled into
  rinv      \* what inverse returned

parserVars == <<g, pc, G, m, err, b, tree, result, calls>>

lexVars == <<lex, stream, lpc, hist, forced>>

cacheVars == <<cache, lock, heap, procs, rets>>

regexVars == <<rpc, re, cs, rprog, rinv>>

\* What a call of Parse leaves alone.
outsideParse == <<lexVars, cacheVars, regexVars>>

\* What a stream leaves alone.
outsideLex == <<parserVars, cacheVars, regexVars>>

\* What the goroutines around the cache leave alone.
outsideCache == <<parserVars, lexVars, regexVars>>

\* What a regular expression leaves alone.
outsideRegex == <<parserVars, lexVars, cacheVars>>

vars == <<parserVars, lexVars, cacheVars, regexVars>>


(***************************************************************************)
(* The lexer.  A Lexer is [closeTransitions, moveTransitions, finalStates, *)
(* maxState]; states are 0..maxState, runes are code points, src is a      *)
(* sequence of bytes, and final state i of the source is finalStates[i+1]. *)
(***************************************************************************)
EmptyLexer ==
  [closeTransitions |-> <<>>, moveTransitions |-> <<>>, finalStates |-> <<>>,
   maxState |-> 0]

CloseTransition(given, then) == [Given |-> given, Then |-> then]

MoveTransition(given, then, min, max) ==
  [Given |-> given, Then |-> then, Min |-> min, Max |-> max]

FinalState(given, then) == [Given |-> given, Then |-> then]

\* Lexer.State: the new state is the maxState of the result.
State(p) == [p EXCEPT !.maxState = @ + 1]

\* Lexer.Range
Range(p, from, to, min, max) ==
  [p EXCEPT !.moveTransitions = Append(@, MoveTransition(from, to, min, max))]

\* Lexer.Rune
Rune(p, from, to, r) == Range(p, from, to, r, r)

RECURSIVE PendingOfForward(_, _, _)
\* The pairs collected with the second test of the loop left out.
PendingOfForward(ts, from, to) ==
  IF ts = <<>> THEN <<>>
  ELSE LET t == Head(ts)
       IN (IF t.Given = to THEN << CloseTransition(from, t.Then) >> ELSE <<>>)
          \o PendingOfForward(Tail(ts), from, to)

RECURSIVE PendingOf(_, _, _)
\* The pairs the loop of Empty collects, in its order.
PendingOf(ts, from, to) ==
  IF ts = <<>> THEN <<>>
  ELSE LET t == Head(ts)
       IN (IF t.Given = to THEN << CloseTransition(from, t.Then) >> ELSE <<>>)
          \o (IF t.Then = from THEN << CloseTransition(t.Given, to) >> ELSE <<>>)
          \o PendingOf(Tail(ts), from, to)

RECURSIVE Empty(_, _, _)
RECURSIVE EmptyEach(_, _)
\* Lexer.Empty: nothing for a pair already there, else the pair is appended
\* and Empty is called for each pair collected.
Empty(p, from, to) ==
  IF Contains(p.closeTransitions, CloseTransition(from, to)) THEN p
  ELSE EmptyEach([p EXCEPT !.closeTransitions =
                               Append(@, CloseTransition(from, to))],
                 PendingOf(p.closeTransitions, from, to))

\* for _, t := range pending { p.Empty(t.Given, t.Then) }
EmptyEach(p, pending) ==
  IF pending = <<>> THEN p
  ELSE EmptyEach(Empty(p, Head(pending).Given, Head(pending).Then),
                 Tail(pending))

\* Lexer.Final
Final(p, given, then) ==
  [p EXCEPT !.finalStates = Append(@, FinalState(given, then))]

\* The replacement character and the bytes of the two-byte rune U+00E9.
RuneError == 65533

LeadByte == 195

ContByte == 169

TwoByteRune == 233

\* utf8.DecodeRune on the bytes from pos (0-based) on: the rune and its
\* width.  Bytes below 128 stand for themselves; LeadByte followed by
\* ContByte is TwoByteRune; either of them elsewhere is invalid and decodes
\* to RuneError with width 1; no bytes decode to RuneError with width 0.
DecodeRune(src, pos) ==
  IF pos >= Len(src) THEN [c |-> RuneError, n |-> 0]
  ELSE LET x == src[pos + 1]
       IN IF x < 128 THEN [c |-> x, n |-> 1]
          ELSE IF x = LeadByte /\ pos + 1 < Len(src) /\ src[pos + 2] = ContByte
          THEN [c |-> TwoByteRune, n |-> 2]
          ELSE [c |-> RuneError, n |-> 1]

NoLexErr == "nil"

ErrRange == "value out of range"

NoTok == [ID |-> -1, Start |-> 0, Text |-> <<>>]

\* A token constructor, finalState.Then: one that always yields, and one
\* that, like strconv.Atoi, fails on a text too long for it and still
\* returns a token.
Construct(then, start, text) ==
  [tok |-> [ID |-> then.id, Start |-> start, Text |-> text],
   err |-> IF then.fails = "long" /\ Len(text) >= 2 THEN ErrRange ELSE NoLexErr]

yieldToken(id) == [id |-> id, fails |-> "never"]

yieldShort(id) == [id |-> id, fails |-> "long"]

\* Lexer.Tokenize
Tokenize(p, src) ==
  [src |-> src, srcPos |-> 0,
   this |-> [i \in 0..p.maxState |-> FALSE],
   next |-> [i \in 0..p.maxState |-> FALSE],
   tok |-> NoTok, err |-> NoLexErr]

RECURSIVE CloseFrom(_, _)
\* Stream.closeState: one pass over the close transitions, in order.
CloseFrom(this, ops) ==
  IF ops = <<>> THEN this
  ELSE CloseFrom(IF this[Head(ops).Given]
                 THEN [this EXCEPT ![Head(ops).Then] = TRUE]
                 ELSE this,
                 Tail(ops))

closeState(p, this) == CloseFrom(this, p.closeTransitions)

RECURSIVE DetectFromAtStart(_, _, _, _, _)
\* detectFinal with a final state live at the start taken as a match.
DetectFromAtStart(p, this, fe, pos, i) ==
  IF i >= Len(p.finalStates) THEN fe
  ELSE LET op == p.finalStates[i + 1]
       IN IF /\ this[op.Given]
             /\ \/ pos > fe.end
                \/ (pos = fe.end /\ (fe.final = -1 \/ i < fe.final))
          THEN DetectFromAtStart(p, this, [final |-> i, end |-> pos], pos, i + 1)
          ELSE DetectFromAtStart(p, this, fe, pos, i + 1)

RECURSIVE DetectFrom(_, _, _, _, _)
\* Stream.detectFinal: fe is [final, end], i the 0-based index of the final
\* state looked at.
DetectFrom(p, this, fe, pos, i) ==
  IF i >= Len(p.finalStates) THEN fe
  ELSE LET op == p.finalStates[i + 1]
       IN IF this[op.Given] /\ (pos > fe.end \/ (pos = fe.end /\ i < fe.final))
          THEN DetectFrom(p, this, [final |-> i, end |-> pos], pos, i + 1)
          ELSE DetectFrom(p, this, fe, pos, i + 1)

detectFinal(p, this, fe, pos) == DetectFrom(p, this, fe, pos, 0)

RECURSIVE MoveFrom(_, _, _, _)
\* Stream.moveState: mv is [next, running].
MoveFrom(this, mv, c, ops) ==
  IF ops = <<>> THEN mv
  ELSE LET op == Head(ops)
       IN IF this[op.Given] /\ c >= op.Min /\ c <= op.Max
          THEN MoveFrom(this, [next |-> [mv.next EXCEPT ![op.Then] = TRUE],
                               running |-> TRUE], c, Tail(ops))
          ELSE MoveFrom(this, mv, c, Tail(ops))

moveState(p, this, next, c) ==
  MoveFrom(this, [next |-> next, running |-> FALSE], c, p.moveTransitions)

RECURSIVE ExecLoop(_, _, _)
\* The loop of Stream.exec; x is [this, next, pos, fe].
ExecLoop(p, src, x) ==
  LET d == DecodeRune(src, x.pos)
      cleared == [i \in DOMAIN x.next |-> FALSE]
      this1 == closeState(p, x.this)
      fe1 == detectFinal(p, this1, x.fe, x.pos)
  IN IF x.pos >= Len(src)
     THEN [this |-> this1, next |-> cleared, pos |-> x.pos, fe |-> fe1]
     ELSE LET mv == moveState(p, this1, cleared, d.c)
              x1 == [this |-> mv.next, next |-> this1, pos |-> x.pos + d.n,
                     fe |-> fe1]
          IN IF mv.running THEN ExecLoop(p, src, x1) ELSE x1

\* exec leaving the cursor where the loop stopped reading.
execCursorAtStop(p, l) ==
  LET x == ExecLoop(p, l.src,
                    [this |-> [l.this EXCEPT ![0] = TRUE], next |-> l.next,
                     pos |-> l.srcPos,
                     fe |-> [final |-> -1, end |-> l.srcPos]])
      made == Construct(p.finalStates[x.fe.final + 1].Then, l.srcPos,
                        SubSeq(l.src, l.srcPos + 1, x.fe.end))
  IN IF x.fe.final = -1
     THEN [l |-> [l EXCEPT !.this = x.this, !.next = x.next],
           ret |-> FALSE, final |-> -1]
     ELSE [l |-> [l EXCEPT !.this = x.this, !.next = x.next,
                           !.tok = made.tok, !.err = made.err,
                           !.srcPos = x.pos],
           ret |-> made.err = NoLexErr, final |-> x.fe.final]

\* Stream.exec: the stream afterwards and whether a token was matched and
\* its constructor returned no error.
exec(p, l) ==
  LET x == ExecLoop(p, l.src,
                    [this |-> [l.this EXCEPT ![0] = TRUE], next |-> l.next,
                     pos |-> l.srcPos,
                     fe |-> [final |-> -1, end |-> l.srcPos]])
      made == Construct(p.finalStates[x.fe.final + 1].Then, l.srcPos,
                        SubSeq(l.src, l.srcPos + 1, x.fe.end))
  IN IF x.fe.final = -1
     THEN [l |-> [l EXCEPT !.this = x.this, !.next = x.next],
           ret |-> FALSE, final |-> -1]
     ELSE [l |-> [l EXCEPT !.this = x.this, !.next = x.next,
                           !.tok = made.tok, !.err = made.err,
                           !.srcPos = x.fe.end],
           ret |-> made.err = NoLexErr, final |-> x.fe.final]

\* What one call of Next did: whether exec ran, what Next returned, the
\* final state whose constructor was invoked (-1: none) with its arguments,
\* the states live once the first closeState of the call was through, and
\* the cursor before and after.
CallRecord(p, l, r, ran) ==
  [ran |-> ran, ret |-> r.ret, final |-> r.final,
   start |-> l.srcPos,
   text |-> IF r.final = -1 THEN <<>> ELSE r.l.tok.Text,
   live |-> IF ran
            THEN {i \in DOMAIN l.this :
                    closeState(p, [l.this EXCEPT ![0] = TRUE])[i]}
            ELSE {},
   before |-> l.srcPos, after |-> r.l.srcPos, tok |-> r.l.tok,
   err |-> r.l.err]

\* Next without the test of the stream's error.
NextOfNoErrTest(p, l) ==
  LET r == exec(p, l)
  IN [l |-> r.l, rec |-> CallRecord(p, l, r, TRUE)]

\* Stream.Next: the stream afterwards and the record of the call.
NextOf(p, l) ==
  IF l.err # NoLexErr
  THEN [l |-> l,
        rec |-> CallRecord(p, l, [l |-> l, ret |-> FALSE, final |-> -1], FALSE)]
  ELSE LET r == exec(p, l)
       IN [l |-> r.l, rec |-> CallRecord(p, l, r, TRUE)]

RECURSIVE ForceFrom(_, _, _, _)
\* The loop of Stream.Force: res the tokens so far, recs the records of its
\* calls of Next.
ForceFrom(p, l, res, recs) ==
  LET n == NextOf(p, l)
  IN IF n.rec.ret
     THEN ForceFrom(p, n.l, Append(res, n.l.tok), Append(recs, n.rec))
     ELSE [l |-> n.l, toks |-> res, err |-> n.l.err,
           recs |-> Append(recs, n.rec)]

\* Stream.Force
Force(p, l) == ForceFrom(p, l, <<>>, <<>>)

NoStream == Tokenize(EmptyLexer, <<>>)

NoForce ==
  [called |-> FALSE, toks |-> <<>>, err |-> NoLexErr, from |-> 0, to |-> 0]

\* No lexer is at work.
NoLexing ==
  /\ lex = EmptyLexer
  /\ stream = NoStream
  /\ lpc = "off"
  /\ hist = <<>>
  /\ forced = NoForce

NoTree == [op |-> "none", lo |-> 0, hi |-> 0, kids |-> <<>>]

\* No regular expression is at work.
NoRegex ==
  /\ rpc = "off"
  /\ re = NoTree
  /\ cs = <<>>
  /\ rprog = EmptyLexer
  /\ rinv = <<>>

\* Nothing has touched the grammar cache.
NoCaching ==
  /\ cache = << >>
  /\ lock = 0
  /\ heap = <<>>
  /\ procs = << >>
  /\ rets = {}

NoMatcher == [root |-> NoType, state |-> <<>>, toks |-> <<>>, cur |-> 0]

NoBuilder == [root |-> NoType, state |-> <<>>, seen |-> <<>>]

NoSpan == RuleSpan(NoItem, 0, <<>>)

InitWith(gs) ==
  /\ g \in gs
  /\ pc = "idle"
  /\ G = << >>
  /\ m = NoMatcher
  /\ err = NoErr
  /\ b = NoBuilder
  /\ tree = NoSpan
  /\ result = NoValue
  /\ calls = <<>>

Init == InitWith(Grammars) /\ NoLexing /\ NoCaching /\ NoRegex

\* Parse up to the call of m.run: the scan and the matcher's construction.
\* A panic of the scan ends the call.
Parse ==
  /\ pc = "idle"
  /\ \E sg \in scan(g) :
       IF sg.panicked
       THEN /\ pc' = "panic"
            /\ UNCHANGED <<G, m>>
       ELSE \E toks \in InputsFor(g) :
              /\ G' = sg.types
              /\ m' = [root |-> g.root, state |-> <<>>, toks |-> toks, cur |-> 0]
              /\ pc' = "run"
  /\ UNCHANGED <<g, err, b, tree, result, calls>>
  /\ UNCHANGED outsideParse

\* matcher.run up to its loop: the first item set and the prediction of root.
RunStart ==
  /\ pc = "run"
  /\ m' = predict(G, [m EXCEPT !.state = << <<>> >>], m.root)
  /\ pc' = "step"
  /\ UNCHANGED <<g, G, err, b, tree, result, calls>>
  /\ UNCHANGED outsideParse

\* One turn of the loop of matcher.run.
Step ==
  /\ pc = "step"
  /\ m.cur < Len(m.toks)
  /\ m' = [step(G, [m EXCEPT !.state = Append(@, <<>>)], m.toks[m.cur + 1])
             EXCEPT !.cur = @ + 1]
  /\ UNCHANGED <<g, pc, G, err, b, tree, result, calls>>
  /\ UNCHANGED outsideParse

\* The loop of matcher.run is over: finalStep.
FinalStep ==
  /\ pc = "step"
  /\ m.cur = Len(m.toks)
  /\ m' = finalStep(G, m)
  /\ pc' = "matches"
  /\ UNCHANGED <<g, G, err, b, tree, result, calls>>
  /\ UNCHANGED outsideParse

\* matcher.matches, and Parse's return of its error.
Matches ==
  /\ pc = "matches"
  /\ err' = matches(m, m.root)
  /\ pc' = IF err'.kind = "nil" THEN "builder" ELSE "done"
  /\ UNCHANGED <<g, G, m, b, tree, result, calls>>
  /\ UNCHANGED outsideParse

\* matcher.builder
Builder ==
  /\ pc = "builder"
  /\ b' = builder(m)
  /\ pc' = "build"
  /\ UNCHANGED <<g, G, m, err, tree, result, calls>>
  /\ UNCHANGED outsideParse

\* The search of builder.build.  A search that never returns leaves Parse
\* crashed; one that fails returns ErrFailedMatch.
Build ==
  /\ pc = "build"
  /\ LET r == build(G, b)
     IN IF r.overflow
        THEN /\ pc' = "crashed"
             /\ UNCHANGED <<err, tree>>
        ELSE IF ~r.ok
        THEN /\ pc' = "done"
             /\ err' = ErrFailedMatch
             /\ UNCHANGED tree
        ELSE /\ pc' = "eval"
             /\ tree' = r.spans[1]
             /\ UNCHANGED err
  /\ UNCHANGED <<g, G, m, b, result, calls>>
  /\ UNCHANGED outsideParse

\* buildFromSpan on the span found, and the Parse hook of the rule object,
\* which hands the value on.
Eval ==
  /\ pc = "eval"
  /\ LET r == Evaluate(g, tree)
     IN /\ result' = r.value
        /\ err' = r.err
        /\ calls' = r.calls
  /\ pc' = "done"
  /\ UNCHANGED <<g, G, m, b, tree>>
  /\ UNCHANGED outsideParse

Next ==
  \/ Parse
  \/ RunStart
  \/ Step
  \/ FinalStep
  \/ Matches
  \/ Builder
  \/ Build
  \/ Eval

Spec == Init /\ [][Next]_vars


(***************************************************************************)
(* The lexers and inputs a stream is run on.                               *)
(***************************************************************************)
\* The longest input of a stream, in bytes.
MaxSrc == 3

\* The longest input of the lexer of TestLexer, in bytes.
MaxTestSrc == 4

\* The number of calls of Next a user of a stream makes itself.
MaxCalls == 3

\* The states beyond state 0 and the move transitions of a generated lexer.
MaxGenStates == 2

MaxGenMoves == 2

\* The states beyond state 0 and the calls of Empty of a lexer made of
\* empty transitions.
MaxEmptyStates == 3

MaxEmpties == 3

\* src/lexer.go, TestLexer: identifiers, integers, floats and the dot, over
\* a letter, a digit and the dot.
testLexer ==
  [closeTransitions |->
     << CloseTransition(1, 2), CloseTransition(3, 2), CloseTransition(3, 4),
        CloseTransition(0, 5), CloseTransition(6, 5), CloseTransition(6, 7),
        CloseTransition(0, 8), CloseTransition(9, 8), CloseTransition(9, 10),
        CloseTransition(11, 12), CloseTransition(13, 12),
        CloseTransition(13, 14) >>,
   moveTransitions |->
     << MoveTransition(0, 1, 97, 122), MoveTransition(2, 3, 97, 122),
        MoveTransition(2, 3, 48, 57), MoveTransition(5, 6, 48, 57),
        MoveTransition(8, 9, 48, 57), MoveTransition(10, 11, 46, 46),
        MoveTransition(12, 13, 48, 57), MoveTransition(0, 15, 46, 46) >>,
   finalStates |->
     << FinalState(4, yieldToken(1)), FinalState(7, yieldToken(2)),
        FinalState(14, yieldToken(3)), FinalState(15, yieldToken(4)) >>,
   maxState |-> 16]

\* src/lexer.go, TestLexerBuild: a chain of empty transitions before '0'.
buildLexer ==
  LET p0 == State(State(State(State(EmptyLexer))))
      p1 == Final(p0, 4, yieldToken(1))
      p2 == Empty(Empty(Empty(p1, 1, 2), 2, 3), 0, 1)
  IN Rune(p2, 3, 4, 48)

\* Two tokens, "a" and "abb".
abbLexer ==
  LET p0 == State(State(State(EmptyLexer)))
      p1 == Final(Rune(p0, 0, 1, 97), 1, yieldToken(1))
  IN Final(Rune(Rune(p1, 1, 2, 98), 2, 3, 98), 3, yieldToken(2))

\* Two tokens that match the same texts, a+ twice, and a third, b, whose
\* constructor is the first's.
tieLexer ==
  LET p0 == State(State(State(EmptyLexer)))
      p1 == Final(Rune(Rune(p0, 0, 1, 97), 1, 1, 97), 1, yieldToken(1))
      p2 == Final(Rune(Rune(p1, 0, 2, 97), 2, 2, 97), 2, yieldToken(2))
  IN Final(Rune(p2, 0, 3, 98), 3, yieldToken(1))

\* A token a+ whose constructor fails on a text of two bytes or more, and a
\* token b.
shortLexer ==
  LET p0 == State(State(EmptyLexer))
      p1 == Final(Rune(Rune(p0, 0, 1, 97), 1, 1, 97), 1, yieldShort(1))
  IN Final(Rune(p1, 0, 2, 98), 2, yieldToken(2))

\* A token of the two-byte rune and a token of anything from 'a' up to the
\* replacement character.
wideLexer ==
  LET p0 == State(State(EmptyLexer))
      p1 == Final(Rune(p0, 0, 1, TwoByteRune), 1, yieldToken(1))
  IN Final(Range(Range(p1, 0, 2, 97, RuneError), 2, 2, 97, 97), 2,
           yieldToken(2))

TestLexers == {testLexer, buildLexer, abbLexer, tieLexer, shortLexer, wideLexer}

\* The move transitions a generated lexer is made of, numbered.
GenMoveChoices ==
  { MoveTransition(a, t, c, c) :
      a \in 0..MaxGenStates, t \in 1..MaxGenStates, c \in {97, 98} }

RECURSIVE SeqOfSet(_)
\* The elements of a set as a sequence, in an arbitrary fixed order.
SeqOfSet(S) ==
  IF S = {} THEN <<>>
  ELSE LET x == CHOOSE y \in S : TRUE IN <<x>> \o SeqOfSet(S \ {x})

GenMoveLists ==
  { SeqOfSet(S) : S \in {T \in SUBSET GenMoveChoices : Cardinality(T) <= MaxGenMoves} }

\* The calls of Empty of a generated lexer: none or one.
GenEmpties == { <<>> } \cup
  { << CloseTransition(at[1], at[2]) >> :
      at \in { x \in (0..MaxGenStates) \X (1..MaxGenStates) : x[1] # x[2] } }

\* Its final states: the states beyond 0 in some order, or the first alone.
GenFinalLists ==
  { << FinalState(1, yieldToken(1)) >>,
    << FinalState(1, yieldToken(1)), FinalState(2, yieldToken(2)) >>,
    << FinalState(2, yieldToken(1)), FinalState(1, yieldToken(2)) >> }

RECURSIVE StatesOf(_, _)
StatesOf(p, n) == IF n = 0 THEN p ELSE StatesOf(State(p), n - 1)

RECURSIVE RangesOf(_, _)
RangesOf(p, ms) ==
  IF ms = <<>> THEN p
  ELSE RangesOf(Range(p, Head(ms).Given, Head(ms).Then, Head(ms).Min,
                      Head(ms).Max), Tail(ms))

RECURSIVE FinalsOf(_, _)
FinalsOf(p, fs) ==
  IF fs = <<>> THEN p
  ELSE FinalsOf(Final(p, Head(fs).Given, Head(fs).Then), Tail(fs))

\* The lexers made by calls of State, Range, Empty and Final.
GenLexers ==
  { FinalsOf(EmptyEach(RangesOf(StatesOf(EmptyLexer, MaxGenStates), ms), es), fs) :
      ms \in GenMoveLists, es \in GenEmpties, fs \in GenFinalLists }

\* The calls of Empty of a lexer that is all empty transitions: up to
\* MaxEmpties of them between any two of its states, a state and itself
\* included.
EmptyCalls ==
  UNION { [1..n -> { CloseTransition(a, t) : a, t \in 0..MaxEmptyStates }] :
          n \in 0..MaxEmpties }

\* The lexers of 'a' from state 0 to state 1 with the last state final, and
\* with empty transitions declared in every way and order.
EmptyLexers ==
  { Final(EmptyEach(Rune(StatesOf(EmptyLexer, MaxEmptyStates), 0, 1, 97), es),
          MaxEmptyStates, yieldToken(1)) : es \in EmptyCalls }

\* p is one of EmptyLexers, told by its states and its move transition.
IsEmptyLexer(p) ==
  /\ p.maxState = MaxEmptyStates
  /\ p.moveTransitions = << MoveTransition(0, 1, 97, 97) >>

Lexers == TestLexers \cup GenLexers

\* The byte sequences of length up to n over the bytes A.
SrcsOver(A, n) == UNION { [1..k -> A] : k \in 0..n }

\* The inputs a lexer is run on.
SrcsFor(p) ==
  IF p = testLexer THEN SrcsOver({46, 49, 97}, MaxTestSrc)
  ELSE IF p = buildLexer THEN SrcsOver({48, 97}, MaxSrc)
  ELSE IF p = wideLexer THEN SrcsOver({97, LeadByte, ContByte}, MaxSrc)
  ELSE IF IsEmptyLexer(p) THEN SrcsOver({97}, 1)
  ELSE SrcsOver({97, 98}, MaxSrc)

(***************************************************************************)
(* A lexer, one stream over it and the calls of its user.                  *)
(***************************************************************************)
NoParsing ==
  /\ g = interfaceGrammar
  /\ pc = "off"
  /\ G = << >>
  /\ m = NoMatcher
  /\ err = NoErr
  /\ b = NoBuilder
  /\ tree = NoSpan
  /\ result = NoValue
  /\ calls = <<>>

LexInit ==
  /\ lex \in Lexers
  /\ stream = NoStream
  /\ lpc = "new"
  /\ hist = <<>>
  /\ forced = NoForce
  /\ NoParsing
  /\ NoCaching
  /\ NoRegex

\* l := p.Tokenize(src)
TokenizeCall ==
  /\ lpc = "new"
  /\ \E src \in SrcsFor(lex) : stream' = Tokenize(lex, src)
  /\ lpc' = "ready"
  /\ UNCHANGED <<lex, hist, forced>>
  /\ UNCHANGED outsideLex

\* l.Next()
NextCall ==
  /\ lpc = "ready"
  /\ Len(hist) < MaxCalls
  /\ LET n == NextOf(lex, stream)
     IN /\ stream' = n.l
        /\ hist' = Append(hist, n.rec)
  /\ UNCHANGED <<lex, lpc, forced>>
  /\ UNCHANGED outsideLex

\* What a call of Force that ended as f leaves behind.
ForceReturns(f) ==
  /\ stream' = f.l
  /\ hist' = hist \o f.recs
  /\ forced' = [called |-> TRUE, toks |-> f.toks, err |-> f.err,
                from |-> Len(hist), to |-> Len(hist) + Len(f.recs)]

\* l.Force(), once.
ForceCall ==
  /\ lpc = "ready"
  /\ ~forced.called
  /\ ForceReturns(Force(lex, stream))
  /\ UNCHANGED <<lex, lpc>>
  /\ UNCHANGED outsideLex

LexNext ==
  \/ TokenizeCall
  \/ NextCall
  \/ ForceCall

LexSpec == LexInit /\ [][LexNext]_vars

\* A stream over a lexer declared by calls of Empty, or over the lexer of
\* TestLexerBuild.
EmptyInit ==
  /\ lex \in EmptyLexers \cup {buildLexer}
  /\ stream = NoStream
  /\ lpc = "new"
  /\ hist = <<>>
  /\ forced = NoForce
  /\ NoParsing
  /\ NoCaching
  /\ NoRegex

EmptySpec == EmptyInit /\ [][LexNext]_vars

(***************************************************************************)
(* The grammar a symbol graph stands for, read off the graph alone: a      *)
(* symbol without rules is a terminal that a token of an assignable type   *)
(* matches, and each rule is a production Implements -> Deps.              *)
(***************************************************************************)
IsTerminal(graph, s) == Len(graph[s].Predictions) = 0

Positions(toks) == 0..Len(toks)

RECURSIVE SeqYields(_, _, _, _, _, _)
\* deps[k..] yields toks[i+1..j], where D holds the <<symbol, i, j>>
\* already known to be derivable.
SeqYields(D, graph, toks, deps, k, span) ==
  IF k > Len(deps) THEN span[1] = span[2]
  ELSE LET s == deps[k]
       IN \E mid \in span[1]..span[2] :
            /\ IF IsTerminal(graph, s)
               THEN mid = span[1] + 1 /\ AssignableTo(toks[mid].type, s)
               ELSE <<s, span[1], mid>> \in D
            /\ SeqYields(D, graph, toks, deps, k + 1, <<mid, span[2]>>)

\* One round of the derivation rules.
DeriveOnce(D, graph, toks) ==
  D \cup { t \in (DOMAIN graph) \X Positions(toks) \X Positions(toks) :
             /\ t[2] <= t[3]
             /\ \E n \in 1..Len(graph[t[1]].Predictions) :
                  SeqYields(D, graph, toks, graph[t[1]].Predictions[n].Deps, 1,
                            <<t[2], t[3]>>) }

RECURSIVE DeriveFix(_, _, _)
DeriveFix(D, graph, toks) ==
  LET D1 == DeriveOnce(D, graph, toks)
  IN IF D1 = D THEN D ELSE DeriveFix(D1, graph, toks)

\* The <<symbol, i, j>> such that the symbol derives toks[i+1..j].
Derivable(graph, toks) == DeriveFix({}, graph, toks)

\* The start symbol derives the whole input.
Derives(graph, root, toks) ==
  IF IsTerminal(graph, root)
  THEN FALSE
  ELSE <<root, 0, Len(toks)>> \in Derivable(graph, toks)

\* The symbols that derive the empty token sequence.
DerivesEmpty(graph) == { t[1] : t \in Derivable(graph, <<>>) }


(***************************************************************************)
(* Parse as one function of the symbol graph and the input.                *)
(***************************************************************************)
RECURSIVE RunLoop(_, _)
\* for _, t := range p.toks { ... }
RunLoop(graph, mm) ==
  IF mm.cur = Len(mm.toks) THEN mm
  ELSE RunLoop(graph,
               [step(graph, [mm EXCEPT !.state = Append(@, <<>>)],
                     mm.toks[mm.cur + 1]) EXCEPT !.cur = @ + 1])

\* matcher.run up to the call of matches.
run(graph, root, toks) ==
  finalStep(graph,
            RunLoop(graph,
                    predict(graph,
                            [root |-> root, state |-> << <<>> >>, toks |-> toks,
                             cur |-> 0], root)))

\* How Parse ends on a symbol graph: where, with which error and value.
ParseOutcome(ro, graph, toks) ==
  LET root == ro.root
      mm == run(graph, root, toks)
      e == matches(mm, root)
      r == build(graph, builder(mm))
  IN IF e.kind # "nil" THEN [pc |-> "done", err |-> e, result |-> NoValue]
     ELSE IF r.overflow
     THEN [pc |-> "crashed", err |-> NoErr, result |-> NoValue]
     ELSE IF ~r.ok
     THEN [pc |-> "done", err |-> ErrFailedMatch, result |-> NoValue]
     ELSE LET v == Evaluate(ro, r.spans[1])
          IN [pc |-> "done", err |-> v.err, result |-> v.value]

\* The recognizer has returned an error.
Rejected == pc = "done" /\ err.kind \in {"ErrUnexpectedToken", "ErrUnexpectedEOF"}

\* The recognizer has returned nil.
Accepted == pc \in {"builder", "build", "eval", "crashed"} \/ (pc = "done" /\ ~Rejected)

\* Parse has ended, by returning or by crashing.
Finished == pc \in {"done", "crashed"}

(***************************************************************************)
(* The grammar cache.  Goroutines call Parse with rule objects of a few    *)
(* types; each call goes through scanGrammar and then through the rest of  *)
(* Parse on the graph it was handed.  A symbol is addressed by the scanner *)
(* that allocated it and its type: heap[i] is the i-th scanner allocated,  *)
(* and a root pointer is [scan, key].                                      *)
(***************************************************************************)
\* The goroutines calling Parse.
MaxProcs == 2

\* The calls of Parse each goroutine makes.
MaxParses == 2

\* The longest input a goroutine parses.
MaxCacheToks == 1

Procs == 1..MaxProcs

\* A rule method whose result is a slice: scanMethods panics on it.
sliceReturnGrammar ==
  [type |-> "sliceReturnGrammar", root |-> "intList",
   methods |-> << Rule("Ints", <<"intTok">>, "[]intTok"),
                  ParseHook("intList") >>]

\* A helper grammar with such a method: the panic comes from the scan of
\* the object sliced's Grammar method returns.
subSliceGrammar ==
  [type |-> "subSliceGrammar", root |-> "intList",
   methods |-> << ParseHook("intList"),
                  Rule("Wrap", <<"sliced">>, "intList") >>]

CacheGrammars ==
  {interfaceGrammar, mixedGrammar, sliceReturnGrammar, subSliceGrammar}

CacheInputs == UNION { TokensOfLen(n) : n \in 0..MaxCacheToks }

NoRuleObject == [type |-> NoHost, root |-> NoType, methods |-> <<>>]

NoRoot == [scan |-> 0, key |-> NoType]

\* The rule object a goroutine hands to Parse: every goroutine has its own
\* object of each rule-object type, and hands that to all its calls.
OwnObject(p) == p

\* A goroutine outside Parse that has made the given number of calls.  inst
\* is the rule object its call was handed, on the objects its last call
\* invoked rule methods on.
IdleProc(parses) ==
  [pc |-> "idle", g |-> NoRuleObject, inst |-> 0, parses |-> parses,
   scan |-> 0, root |-> NoRoot, m |-> NoMatcher, err |-> NoErr,
   b |-> NoBuilder, tree |-> NoSpan, result |-> NoValue, on |-> {}]

\* sync.Mutex: Lock goes through when nobody holds the mutex.
LockFreeAlways(lk) == TRUE

LockFree(lk) == lk = 0

\* s := &scanner{...}: the scanner, and with it its symbols, is fresh.
SharedScanner(h) == 1

FreshScanner(h) == Len(h) + 1

\* cache[key] = v
PutCache(c, key, v) ==
  [k \in DOMAIN c \cup {key} |-> IF k = key THEN v ELSE c[k]]

\* The symbols reachable from a root pointer, as the heap has them now.
Graph(r) == heap[r.scan].sc.types

\* Parse(g, toks) is called: it calls scanGrammar.
CallParse(p) ==
  /\ procs[p].pc = "idle"
  /\ procs[p].parses < MaxParses
  /\ \E ro \in CacheGrammars :
       procs' = [procs EXCEPT ![p] = [IdleProc(procs[p].parses + 1)
                                        EXCEPT !.pc = "lock", !.g = ro,
                                               !.inst = OwnObject(p)]]
  /\ UNCHANGED <<cache, lock, heap, rets>>
  /\ UNCHANGED outsideCache

\* lock.Lock()
Lock(p) ==
  /\ procs[p].pc = "lock"
  /\ LockFree(lock)
  /\ lock' = p
  /\ procs' = [procs EXCEPT ![p].pc = "lookup"]
  /\ UNCHANGED <<cache, heap, rets>>
  /\ UNCHANGED outsideCache

\* The lookup in the cache: a hit returns the root stored, a miss allocates
\* a scanner.
Lookup(p) ==
  /\ procs[p].pc = "lookup"
  /\ IF procs[p].g.type \in DOMAIN cache
     THEN /\ procs' = [procs EXCEPT ![p].root = cache[procs[p].g.type],
                                    ![p].pc = "unlock"]
          /\ UNCHANGED heap
     ELSE /\ heap' = Append(heap, [type |-> procs[p].g.type,
                                   owner |-> <<p, procs[p].parses>>,
                                   host |-> procs[p].inst,
                                   stage |-> "new",
                                   sc |-> NewScanner(procs[p].g)])
          /\ procs' = [procs EXCEPT ![p].scan = FreshScanner(heap),
                                    ![p].pc = "scanMethods"]
  /\ UNCHANGED <<cache, lock, rets>>
  /\ UNCHANGED outsideCache

\* scanner.scan: s.ensure(s.rootType); s.scanMethods(s.host).
ScanMethods(p) ==
  /\ procs[p].pc = "scanMethods"
  /\ LET id == procs[p].scan
         s1 == scanMethods(ensure(heap[id].sc, procs[p].g.root), procs[p].g)
     IN /\ heap' = [heap EXCEPT ![id].sc = s1,
                                ![id].stage = IF s1.panicked THEN "panicked"
                                              ELSE "methods"]
        /\ procs' = [procs EXCEPT ![p].pc = IF s1.panicked THEN "panic"
                                            ELSE "markNullable"]
  /\ UNCHANGED <<cache, lock, rets>>
  /\ UNCHANGED outsideCache

\* scanner.scan: s.markNullableTypes()
MarkNullable(p) ==
  /\ procs[p].pc = "markNullable"
  /\ LET id == procs[p].scan
         types == heap[id].sc.types
         withRules == {k \in DOMAIN types : Len(types[k].Predictions) > 0}
     IN \E order \in RangeOrders(withRules) :
          heap' = [heap EXCEPT ![id].sc.types = markNullableTypes(types, order),
                               ![id].stage = "nullable"]
  /\ procs' = [procs EXCEPT ![p].pc = "fillOut"]
  /\ UNCHANGED <<cache, lock, rets>>
  /\ UNCHANGED outsideCache

\* scanner.scan: s.fillOutInterfaces()
FillOut(p) ==
  /\ procs[p].pc = "fillOut"
  /\ LET id == procs[p].scan
     IN \E f \in fillOutInterfaces(heap[id].sc.types, heap[id].sc.next) :
          heap' = [heap EXCEPT ![id].sc.types = f.types,
                               ![id].sc.next = f.next,
                               ![id].stage = "filled"]
  /\ procs' = [procs EXCEPT ![p].pc = "markTokens"]
  /\ UNCHANGED <<cache, lock, rets>>
  /\ UNCHANGED outsideCache

\* scanner.scan: s.markTokenTypes(), and the return of the root.
MarkTokens(p) ==
  /\ procs[p].pc = "markTokens"
  /\ LET id == procs[p].scan
     IN heap' = [heap EXCEPT ![id].sc.types = markTokenTypes(@),
                             ![id].stage = "done"]
  /\ procs' = [procs EXCEPT ![p].pc = "store"]
  /\ UNCHANGED <<cache, lock, rets>>
  /\ UNCHANGED outsideCache

\* cache[ruleSet.Type()] = root
Store(p) ==
  /\ procs[p].pc = "store"
  /\ LET root == [scan |-> procs[p].scan, key |-> procs[p].g.root]
     IN /\ cache' = PutCache(cache, procs[p].g.type, root)
        /\ procs' = [procs EXCEPT ![p].root = root, ![p].pc = "unlock"]
  /\ UNCHANGED <<lock, heap, rets>>
  /\ UNCHANGED outsideCache

\* The deferred lock.Unlock(), on return and on a panic alike.  A panic
\* leaves Parse with nothing cached; the goroutine that recovers from it
\* may call Parse again.
Unlock(p) ==
  /\ procs[p].pc \in {"unlock", "panic"}
  /\ lock' = 0
  /\ IF procs[p].pc = "panic"
     THEN /\ procs' = [procs EXCEPT ![p] = IdleProc(procs[p].parses)]
          /\ UNCHANGED rets
     ELSE /\ procs' = [procs EXCEPT ![p].pc = "run"]
          /\ rets' = rets \cup {[type |-> procs[p].g.type,
                                 root |-> procs[p].root]}
  /\ UNCHANGED <<cache, heap>>
  /\ UNCHANGED outsideCache

\* m.run() on the graph handed out, and Parse's return of its error.
RunOn(p) ==
  /\ procs[p].pc = "run"
  /\ \E toks \in CacheInputs :
       LET mm == run(Graph(procs[p].root), procs[p].g.root, toks)
           e == matches(mm, procs[p].g.root)
       IN procs' = [procs EXCEPT
                      ![p] = IF e.kind = "nil"
                             THEN [@ EXCEPT !.m = mm, !.pc = "builder"]
                             ELSE [IdleProc(@.parses) EXCEPT !.err = e]]
  /\ UNCHANGED <<cache, lock, heap, rets>>
  /\ UNCHANGED outsideCache

\* m.builder()
BuilderOn(p) ==
  /\ procs[p].pc = "builder"
  /\ procs' = [procs EXCEPT ![p].b = builder(procs[p].m), ![p].pc = "build"]
  /\ UNCHANGED <<cache, lock, heap, rets>>
  /\ UNCHANGED outsideCache

\* b.build()
BuildOn(p) ==
  /\ procs[p].pc = "build"
  /\ LET r == build(Graph(procs[p].root), procs[p].b)
     IN procs' = [procs EXCEPT
                    ![p] = IF r.overflow \/ ~r.ok
                           THEN [IdleProc(@.parses) EXCEPT !.err = ErrFailedMatch]
                           ELSE [@ EXCEPT !.tree = r.spans[1], !.pc = "eval"]]
  /\ UNCHANGED <<cache, lock, heap, rets>>
  /\ UNCHANGED outsideCache

RECURSIVE HostsIn(_)
\* The r.Host of the rules of a span and of the spans below it.
HostsIn(s) ==
  IF s.isTok THEN {}
  ELSE {s.item.rule.Host}
         \cup UNION {HostsIn(s.children[i]) : i \in 1..Len(s.children)}

\* The host handed to the scan that ended with the graph.
HostBound(r) == heap[r.scan].host

\* args[0] = r.Host: the object a rule method is invoked on.  The rules of
\* the rule object's type carry the host of the scan, those of a helper
\* grammar the object its Grammar method returned to the scan (inst 0).
HostObject(r, type) ==
  [type |-> type,
   inst |-> IF type = heap[r.scan].type THEN HostBound(r) ELSE 0]

\* buildFromSpan and the Parse hook: the rule actions are evaluated.
EvalOn(p) ==
  /\ procs[p].pc = "eval"
  /\ LET r == Evaluate(procs[p].g, procs[p].tree)
         on == {HostObject(procs[p].root, t) : t \in HostsIn(procs[p].tree)}
     IN procs' = [procs EXCEPT
                    ![p] = [IdleProc(@.parses)
                              EXCEPT !.result = r.value, !.err = r.err,
                                     !.inst = procs[p].inst, !.on = on]]
  /\ UNCHANGED <<cache, lock, heap, rets>>
  /\ UNCHANGED outsideCache

CacheInit ==
  /\ cache = << >>
  /\ lock = 0
  /\ heap = <<>>
  /\ procs = [p \in Procs |-> IdleProc(0)]
  /\ rets = {}
  /\ NoParsing
  /\ NoLexing
  /\ NoRegex

CacheNext ==
  \/ \E p \in Procs : CallParse(p)
  \/ \E p \in Procs : Lock(p)
  \/ \E p \in Procs : Lookup(p)
  \/ \E p \in Procs : ScanMethods(p)
  \/ \E p \in Procs : MarkNullable(p)
  \/ \E p \in Procs : FillOut(p)
  \/ \E p \in Procs : MarkTokens(p)
  \/ \E p \in Procs : Store(p)
  \/ \E p \in Procs : Unlock(p)
  \/ \E p \in Procs : RunOn(p)
  \/ \E p \in Procs : BuilderOn(p)
  \/ \E p \in Procs : BuildOn(p)
  \/ \E p \in Procs : EvalOn(p)

CacheSpec == CacheInit /\ [][CacheNext]_vars


(***************************************************************************)
(* Regular expressions.  An expression tree is [op, lo, hi, kids]: empty,  *)
(* match (the runes lo..hi), seq and choice (two kids), repeat and nest    *)
(* (one kid).  The trees follow the Go types of the fields: a term is a    *)
(* match or a nest, a run is a term, empty, a seq or a repeat, an expr is  *)
(* a run or a choice; seq holds runs, repeat a term, choice and nest       *)
(* hold exprs.                                                             *)
(***************************************************************************)
\* The most nodes of an expression tree.
MaxNodes == 6

\* The longest string a compiled expression is run on.
MaxStr == 3

\* The most ranges of a character set.
MaxRanges == 2

\* unicode.MaxRune
MaxRune == 1114111

empty == [op |-> "empty", lo |-> 0, hi |-> 0, kids |-> <<>>]

match(start, end) == [op |-> "match", lo |-> start, hi |-> end, kids |-> <<>>]

seq(left, right) == [op |-> "seq", lo |-> 0, hi |-> 0, kids |-> <<left, right>>]

choice(left, right) ==
  [op |-> "choice", lo |-> 0, hi |-> 0, kids |-> <<left, right>>]

repeat(repeated) == [op |-> "repeat", lo |-> 0, hi |-> 0, kids |-> <<repeated>>]

nest(nested) == [op |-> "nest", lo |-> 0, hi |-> 0, kids |-> <<nested>>]

\* The empty transitions of a repeat without the one that leads back.
repeatEdgesOnce(prog, start, s1, s2, end) ==
  Empty(Empty(prog, start, s1), s2, end)

\* The empty transitions of repeat.compile: into the repeated expression,
\* back to its start, and out.
repeatEdges(prog, start, s1, s2, end) ==
  Empty(Empty(Empty(prog, start, s1), s2, s1), s2, end)

RECURSIVE compile(_, _, _, _)
\* e.compile(prog, start, end): the lexer with the expression's states and
\* transitions added.
compile(prog, e, start, end) ==
  IF e.op = "empty" THEN Empty(prog, start, end)
  ELSE IF e.op = "match" THEN Range(prog, start, end, e.lo, e.hi)
  ELSE IF e.op = "seq" THEN
    LET p1 == State(prog)
        mid == p1.maxState
    IN compile(compile(p1, e.kids[1], start, mid), e.kids[2], mid, end)
  ELSE IF e.op = "choice" THEN
    compile(compile(prog, e.kids[1], start, end), e.kids[2], start, end)
  ELSE IF e.op = "repeat" THEN
    LET p1 == State(prog)
        s1 == p1.maxState
        p2 == State(p1)
        s2 == p2.maxState
    IN compile(repeatEdges(p2, start, s1, s2, end), e.kids[1], s1, s2)
  ELSE compile(prog, e.kids[1], start, end)

\* The body of the token spec Regex returns, for the tree the pattern was
\* parsed to: end := l.State(); l.Final(end, yield); e.compile(l, 0, end).
RegexOf(l, e) ==
  LET p1 == State(l)
      end == p1.maxState
  IN compile(Final(p1, end, yieldToken(1)), e, 0, end)

\* The states live once a stream over p has consumed the whole of src from
\* state 0, as the loop of exec leaves them; none when it stopped before.
LiveAtEnd(p, src) ==
  LET none == [i \in 0..p.maxState |-> FALSE]
      x == ExecLoop(p, src, [this |-> [none EXCEPT ![0] = TRUE],
                             next |-> none, pos |-> 0,
                             fe |-> [final |-> -1, end |-> 0]])
  IN IF x.pos = Len(src) THEN {i \in 0..p.maxState : x.this[i]} ELSE {}

(***************************************************************************)
(* Character sets.  A charset is the sequence of its ranges [start, end].  *)
(***************************************************************************)
\* sort.Slice by start: every order the sort can leave ranges in (it is not
\* stable).
SortedByStart(ranges) ==
  { [i \in 1..Len(ranges) |-> ranges[o[i]]] :
      o \in { q \in RangeOrders(1..Len(ranges)) :
                \A i \in 1..(Len(ranges) - 1) :
                  ranges[q[i]].start <= ranges[q[i + 1]].start } }

RECURSIVE InverseFrom(_, _, _, _)
\* The loop of charset.inverse from range i on.
InverseFrom(ranges, i, res, last) ==
  IF i > Len(ranges) THEN [res |-> res, last |-> last]
  ELSE LET r == ranges[i]
           res1 == IF r.start > last
                   THEN Append(res, [start |-> last, end |-> r.start - 1])
                   ELSE res
           last1 == IF r.end >= last THEN r.end + 1 ELSE last
       IN IF r.end < r.start THEN InverseFrom(ranges, i + 1, res, last)
          ELSE InverseFrom(ranges, i + 1, res1, last1)

\* charset.inverse: every result, one for each order the sort can leave.
inverse(ranges) ==
  { LET x == InverseFrom(sorted, 1, <<>>, 0)
    IN IF x.last < MaxRune
       THEN Append(x.res, [start |-> x.last, end |-> MaxRune])
       ELSE x.res :
    sorted \in SortedByStart(ranges) }

(***************************************************************************)
(* The expressions compiled and the character sets inverted.               *)
(***************************************************************************)
Alphabet == {97, 98}

MatchNodes == { match(lo, hi) : lo \in Alphabet, hi \in Alphabet }

RECURSIVE Terms(_), Runs(_), Exprs(_)
\* The terms, runs and exprs of exactly n nodes.
Terms(n) ==
  IF n < 1 THEN {}
  ELSE IF n = 1 THEN MatchNodes
  ELSE { nest(e) : e \in Exprs(n - 1) }

Runs(n) ==
  IF n < 1 THEN {}
  ELSE IF n = 1 THEN MatchNodes \cup {empty}
  ELSE Terms(n)
       \cup { repeat(e) : e \in Terms(n - 1) }
       \cup UNION { { seq(l, r) : l \in Runs(i), r \in Runs(n - 1 - i) } :
                    i \in 1..(n - 2) }

Exprs(n) ==
  IF n < 1 THEN {}
  ELSE Runs(n)
       \cup UNION { { choice(l, r) : l \in Exprs(i), r \in Exprs(n - 1 - i) } :
                    i \in 1..(n - 2) }

Trees == UNION { Exprs(n) : n \in 1..MaxNodes }

Strings == UNION { [1..n -> Alphabet] : n \in 0..MaxStr }

\* The ends of the ranges drawn: the first and the last code points and
\* their neighbours.
Codepoints == {0, 1, 2, MaxRune - 1, MaxRune}

Charsets ==
  UNION { [1..n -> [start : Codepoints, end : Codepoints]] : n \in 0..MaxRanges }

RegexInit ==
  /\ \/ rpc = "tree" /\ re \in Trees /\ cs = <<>>
     \/ rpc = "charset" /\ re = NoTree /\ cs \in Charsets
  /\ rprog = EmptyLexer
  /\ rinv = <<>>
  /\ NoParsing
  /\ NoLexing
  /\ NoCaching

\* NewLexer(Regex(pattern, yield)) for a pattern that parses to re.
RegexCall ==
  /\ rpc = "tree"
  /\ rprog' = RegexOf(EmptyLexer, re)
  /\ rpc' = "compiled"
  /\ UNCHANGED <<re, cs, rinv>>
  /\ UNCHANGED outsideRegex

\* contents.inverse()
InverseCall ==
  /\ rpc = "charset"
  /\ rinv' \in inverse(cs)
  /\ rpc' = "inverted"
  /\ UNCHANGED <<re, cs, rprog>>
  /\ UNCHANGED outsideRegex

RegexNext ==
  \/ RegexCall
  \/ InverseCall

RegexSpec == RegexInit /\ [][RegexNext]_vars


(***************************************************************************)
(* Properties.                                                             *)
(***************************************************************************)

\* C1: recognition completeness.  Whenever the start symbol of the scanned
\* grammar derives the input, matcher.run returns nil: a run that the
\* recognizer rejected had an input the start symbol does not derive.
C1_Completeness == Rejected => ~Derives(G, m.root, m.toks)

\* C2: recognition soundness.  Whenever matcher.run returns nil, the start
\* symbol derives the input, every token matched by a terminal its type is
\* assignable to.
C2_Soundness == pc = "builder" => Derives(G, m.root, m.toks)

\* C2 happens: a generated grammar accepts an input of two or more tokens.
C2_Witness == pc = "builder" /\ g \in GenGrammars /\ Len(m.toks) >= 2

\* C3: once the recognizer has accepted, build finds a span tree: it neither
\* returns ErrFailedMatch nor fails to return.
C3_BuildFindsTree ==
  (Accepted /\ pc \in {"eval", "done", "crashed"}) =>
    (pc # "crashed" /\ err.kind # "ErrFailedMatch")

\* C8: nullability closure.  After the scan every symbol of the graph is
\* flagged Nullable exactly if it derives the empty token sequence.
C8_NullableIffDerivesEmpty ==
  pc = "run" => \A k \in DOMAIN G : G[k].Nullable <=> k \in DerivesEmpty(G)


\* x sorts strictly before y under the builder's order.
Lower(x, y) ==
  \/ x.rule.Index < y.rule.Index
  \/ x.rule.Index = y.rule.Index /\ x.position < y.position

\* The candidate cand, a completed item that begins where the k-th child of
\* the span s begins, could take that child's place: it implements the
\* dependency, the dependencies after it can be matched from its end to the
\* end of s, and its own children can be matched.
CanStandFor(graph, bb, s, k, cand) ==
  LET deps == s.item.rule.Deps
  IN /\ cand.rule.Implements = deps[k]
     /\ findSpanChildren(graph, bb, SubSeq(deps, k + 1, Len(deps)),
                         cand.position, s.item.position, {}).ok
     /\ findSpan(graph, bb, cand, s.children[k].at, {}).ok

RECURSIVE TieBreakHolds(_, _, _)
\* In the span s and below it, every child of a nonterminal dependency is a
\* candidate that could stand there, and no candidate that sorts strictly
\* before it could.
TieBreakHolds(graph, bb, s) ==
  \A k \in 1..Len(s.children) :
    LET c == s.children[k]
        cands == bb.state[c.at + 1]
    IN c.isTok \/
       /\ Contains(cands, c.item)
       /\ CanStandFor(graph, bb, s, k, c.item)
       /\ \A i \in 1..Len(cands) :
            Lower(cands[i], c.item) => ~CanStandFor(graph, bb, s, k, cands[i])
       /\ TieBreakHolds(graph, bb, c)

RECURSIVE HasRival(_, _, _)
\* Somewhere in the span s a child had a rival: another candidate with
\* another rule index or end that could have stood in its place.
HasRival(graph, bb, s) ==
  \E k \in 1..Len(s.children) :
    LET c == s.children[k]
        cands == bb.state[c.at + 1]
    IN ~c.isTok /\
       \/ \E i \in 1..Len(cands) :
            /\ Lower(c.item, cands[i])
            /\ CanStandFor(graph, bb, s, k, cands[i])
       \/ HasRival(graph, bb, c)

\* C4: tie-break policy.  Each nonterminal child of the tree the builder
\* found is, among the completed items that could stand in its place, one
\* with the lowest rule index and, among those, one with the smallest end.
C4_TieBreak == pc = "eval" => TieBreakHolds(G, b, tree)

\* C4 happens: the builder chose between rival candidates.
C4_Witness == pc = "eval" /\ HasRival(G, b, tree)

\* C5: determinism.  Whatever order the scanner's loops over its type map
\* take, Parse ends the same way on the same rule object and input: every
\* other scan of g leads to the error and the value this run ended with.
C5_Deterministic ==
  Finished =>
    \A sg \in scan(g) :
      ParseOutcome(g, sg.types, m.toks) =
        [pc |-> pc, err |-> err, result |-> result]

\* The item sets 1..N that are empty once the recognizer is through.
EmptySets == {k \in 1..Len(m.toks) : Len(m.state[k + 1]) = 0}

FirstEmptySet == CHOOSE k \in EmptySets : \A j \in EmptySets : k <= j

\* matcher.matches has been called.
Matched == pc \in {"builder", "done"}

\* C6: when an item set among 1..N is empty after processing, the error is
\* ErrUnexpectedToken and carries t[k-1] for the smallest such k.
C6_UnexpectedToken ==
  (Matched /\ EmptySets # {}) =>
    err = ErrUnexpectedToken(m.toks[FirstEmptySet])

\* C6 happens: int + int + + int under expr := int | expr + expr is refused
\* at the second of the two consecutive '+', with later sets empty as well.
C6_Witness ==
  /\ pc = "done"
  /\ g = interfaceGrammar
  /\ [i \in 1..Len(m.toks) |-> m.toks[i].type] =
       <<"intTok", "plusTok", "intTok", "plusTok", "plusTok", "intTok">>
  /\ EmptySets = {5, 6}
  /\ err = ErrUnexpectedToken([type |-> "plusTok", val |-> 5])

\* Set N holds an item that accepts the input.
HasAccepting ==
  \E i \in 1..Len(m.state[Len(m.state)]) :
    Accepting(m.state[Len(m.state)][i], m.root)

\* C7: when every item set 0..N is non-empty and set N holds no completed
\* item of a start-symbol rule with origin 0, the error is the unexpected end
\* of input.
C7_UnexpectedEnd ==
  (Matched /\ (\A k \in 1..Len(m.state) : Len(m.state[k]) > 0) /\ ~HasAccepting) =>
    err = ErrUnexpectedEOF

\* C7 happens: a non-empty input ends early with every set non-empty.
C7_Witness ==
  /\ pc = "done"
  /\ Len(m.toks) >= 2
  /\ \A k \in 1..Len(m.state) : Len(m.state[k]) > 0
  /\ ~HasAccepting

\* int ('+' int)^n, the tokens numbered from 1.
AddInput(n) ==
  [i \in 1..(2 * n + 1) |->
     [type |-> IF i % 2 = 1 THEN "intTok" ELSE "plusTok", val |-> i]]

IntNode(i) ==
  [kind |-> "node", name |-> "Int", host |-> "interfaceGrammar", val |-> 0,
   args |-> << TokValue([type |-> "intTok", val |-> i]) >>]

AddNode(left, i, right) ==
  [kind |-> "node", name |-> "Add", host |-> "interfaceGrammar", val |-> 0,
   args |-> << left, TokValue([type |-> "plusTok", val |-> i]), right >>]

RECURSIVE LeftNested(_)
\* add(...add(add(int1, int2), int3)..., int_{n+1})
LeftNested(n) ==
  IF n = 0 THEN IntNode(1)
  ELSE AddNode(LeftNested(n - 1), 2 * n, IntNode(2 * n + 1))

\* The n for which int ('+' int)^n fits the inputs handed to Parse.
AddCounts == {n \in 1..MaxTestToks : 2 * n + 1 <= MaxTestToks}

\* C9 for every n: under expr := int | expr '+' expr the value of
\* int ('+' int)^n is the left-nested tree, for every n >= 1.
C9_LeftNestedAll ==
  \A n \in AddCounts :
    (pc = "done" /\ g = interfaceGrammar /\ m.toks = AddInput(n)) =>
      (err = NoErr /\ result = LeftNested(n))

\* C9 as amended: the value of int ('+' int)^n is the left-nested tree for
\* n = 1 and n = 2.
C9_LeftNestedUpToTwo ==
  \A n \in {1, 2} :
    (pc = "done" /\ g = interfaceGrammar /\ m.toks = AddInput(n)) =>
      (err = NoErr /\ result = LeftNested(n))

\* C9 happens: int + int + int has been parsed.
C9_Witness ==
  pc = "done" /\ g = interfaceGrammar /\ m.toks = AddInput(2) /\ err = NoErr

\* C10: under a rule with a []intTok parameter an input of n intTok tokens is
\* accepted and the rule method receives the n tokens in input order.
C10_SliceOrder ==
  (Finished /\ g = sliceRuleset /\ \A i \in 1..Len(m.toks) : m.toks[i].type = "intTok") =>
    /\ pc = "done"
    /\ err = NoErr
    /\ result =
         [kind |-> "node", name |-> "ParseInts", host |-> "sliceRuleset",
          val |-> 0,
          args |-> << SliceValue([i \in 1..Len(m.toks) |-> TokValue(m.toks[i])]) >>]

\* C10 happens: three intTok tokens have been parsed into a slice.
C10_Witness ==
  /\ pc = "done"
  /\ g = sliceRuleset
  /\ Len(m.toks) = 3
  /\ \A i \in 1..Len(m.toks) : m.toks[i].type = "intTok"
  /\ result.kind = "node"


\* Some derivation of the input from the start symbol ends in a nonterminal
\* that derives the empty sequence at the end of the input: a rule of root
\* whose last dependency is that nonterminal and whose other dependencies
\* yield the whole input.
EndsEmpty(graph, root, toks) ==
  LET D == Derivable(graph, toks)
      N == Len(toks)
  IN \E n \in 1..Len(graph[root].Predictions) :
       LET deps == graph[root].Predictions[n].Deps
           last == Len(deps)
       IN /\ last >= 1
          /\ ~IsTerminal(graph, deps[last])
          /\ <<deps[last], N, N>> \in D
          /\ SeqYields(D, graph, toks, SubSeq(deps, 1, last - 1), 1, <<0, N>>)

\* C11: trailing nullable matches.  A non-empty input with a derivation that
\* ends in a symbol deriving empty is accepted once the last token is
\* consumed, and the builder finds a span tree for it.
C11_TrailingEmpty ==
  (Finished /\ Len(m.toks) >= 1 /\ EndsEmpty(G, m.root, m.toks)) =>
    (pc = "done" /\ err = NoErr)


(***************************************************************************)
(* The automaton a Lexer stands for, read off its transitions alone.       *)
(***************************************************************************)
RECURSIVE ClosureOf(_, _)
\* The states reachable from S by empty transitions.
ClosureOf(p, S) ==
  LET S1 == S \cup { p.closeTransitions[i].Then :
                       i \in { j \in 1..Len(p.closeTransitions) :
                                 p.closeTransitions[j].Given \in S } }
  IN IF S1 = S THEN S ELSE ClosureOf(p, S1)

\* The states entered from S on the rune c.
MoveOf(p, S, c) ==
  { p.moveTransitions[i].Then :
      i \in { j \in 1..Len(p.moveTransitions) :
                /\ p.moveTransitions[j].Given \in S
                /\ p.moveTransitions[j].Min <= c
                /\ c <= p.moveTransitions[j].Max } }

RECURSIVE LiveAfter(_, _, _, _, _)
\* The states live after consuming src[pos:e] rune by rune from the states
\* S; none when e is not at the end of a rune.
LiveAfter(p, src, S, pos, e) ==
  IF pos = e THEN ClosureOf(p, S)
  ELSE IF pos > e \/ pos >= Len(src) THEN {}
  ELSE LET d == DecodeRune(src, pos)
       IN LiveAfter(p, src, MoveOf(p, ClosureOf(p, S), d.c), pos + d.n, e)

\* The 0-based final states live after consuming src[s:e] from state 0.
FinalsLive(p, src, s, e) ==
  { i \in 0..(Len(p.finalStates) - 1) :
      p.finalStates[i + 1].Given \in LiveAfter(p, src, {0}, s, e) }

\* The offsets beyond s at which some final state is live.
FinalEnds(p, src, s) ==
  { e \in (s + 1)..Len(src) : FinalsLive(p, src, s, e) # {} }

Max(S) == CHOOSE x \in S : \A y \in S : y <= x

Min(S) == CHOOSE x \in S : \A y \in S : x <= y

\* Call k of Next invoked a constructor.
Emitted(k) == hist[k].final # -1

\* Call k ended at the longest match from state 0 and chose the earliest
\* final state live there.
LongestMatch(k) ==
  LET ends == FinalEnds(lex, stream.src, hist[k].before)
  IN /\ ends # {}
     /\ hist[k].after = Max(ends)
     /\ hist[k].final =
          Min(FinalsLive(lex, stream.src, hist[k].before, hist[k].after))

\* C12: lexer longest-match.  Every token ends at the largest offset beyond
\* its start at which a final state is live after consuming the text from
\* state 0, and is made by the earliest-declared final state live there.
C12_LongestMatch == \A k \in 1..Len(hist) : Emitted(k) => LongestMatch(k)

\* C13: restart from state 0.  At the start of matching every token the live
\* states are exactly the closure of {0} under the empty transitions.
C13_RestartFromZero ==
  \A k \in 1..Len(hist) : hist[k].ran => hist[k].live = ClosureOf(lex, {0})

\* The tokens of the calls from+1..to of Next that returned true.
RECURSIVE TokensOf(_, _)
TokensOf(from, to) ==
  IF from >= to THEN <<>>
  ELSE (IF hist[from + 1].ret THEN << hist[from + 1].tok >> ELSE <<>>)
       \o TokensOf(from + 1, to)

\* C14: sticky lexer error.  Once a constructor has returned an error, the
\* stream keeps that error, every later Next returns false without running
\* the automaton or invoking a constructor, and Force returns the tokens
\* emitted before the error together with the error.
C14_StickyError ==
  /\ \A k \in 1..Len(hist) :
       hist[k].err # NoLexErr =>
         /\ stream.err = hist[k].err
         /\ \A j \in (k + 1)..Len(hist) :
              /\ ~hist[j].ret
              /\ ~hist[j].ran
              /\ hist[j].final = -1
              /\ hist[j].err = hist[k].err
              /\ hist[j].after = hist[k].after
              /\ hist[j].tok = hist[k].tok
  /\ (forced.called /\ forced.err # NoLexErr) =>
       /\ forced.err = hist[forced.to].err
       /\ forced.toks = TokensOf(forced.from, forced.to)
       /\ \A k \in (forced.from + 1)..(forced.to - 1) : hist[k].ret

\* C14 happens: a constructor failed after a token was emitted, Next was
\* called again, and Force had been called on the fresh stream.
C14_Witness ==
  /\ forced.called
  /\ forced.from = 0
  /\ forced.err = ErrRange
  /\ Len(forced.toks) >= 1
  /\ Len(hist) > forced.to

RECURSIVE TextsOf(_)
\* The texts the constructors were invoked with in the calls 1..k, joined.
TextsOf(k) ==
  IF k = 0 THEN <<>>
  ELSE TextsOf(k - 1) \o (IF Emitted(k) THEN hist[k].tok.Text ELSE <<>>)

\* C15: token offsets.  Each constructor is called with the cursor before
\* the match and the text src[start:end], the cursor is end afterwards, and
\* the texts of all tokens so far join up to src[0:cursor].
C15_TokenOffsets ==
  /\ \A k \in 1..Len(hist) :
       Emitted(k) =>
         /\ hist[k].tok.Start = hist[k].before
         /\ hist[k].after > hist[k].before
         /\ hist[k].tok.Text =
              SubSeq(stream.src, hist[k].before + 1, hist[k].after)
         /\ k > 1 => hist[k].before = hist[k - 1].after
  /\ lpc = "ready" => TextsOf(Len(hist)) = SubSeq(stream.src, 1, stream.srcPos)

\* C15 happens: a stream gave a token of the two-byte rune and then another
\* token.
C15_Witness ==
  /\ lex = wideLexer
  /\ Len(hist) >= 2
  /\ hist[1].ret /\ hist[1].final = 0 /\ Len(hist[1].tok.Text) = 2
  /\ hist[2].ret /\ hist[2].tok.Start = 2

\* The scanners allocated for rule objects of type t.
ScansOf(t) == {i \in 1..Len(heap) : heap[i].type = t}

\* The graphs a scan of the rule object can end with.
CompleteGraphs(ro) == {sg.types : sg \in {x \in scan(ro) : ~x.panicked}}

\* The goroutines that hold a root scanGrammar returned to them.
Holders == {p \in DOMAIN procs : procs[p].pc \in {"run", "builder", "build", "eval"}}

\* C16: the grammar cache under concurrency.  For every rule object type of
\* which some call of scanGrammar has returned, however the calls of the
\* goroutines interleave: exactly one scanner was ever allocated for the
\* type, every call returned the same root pointer, and the graph a caller
\* holds is a finished one, one of the graphs scanner.scan of the rule
\* object ends with.
C16_ScannedOnce ==
  /\ \A r \in rets :
       /\ Cardinality(ScansOf(r.type)) = 1
       /\ \A q \in rets : q.type = r.type => q.root = r.root
  /\ \A p \in Holders :
       /\ heap[procs[p].root.scan].stage = "done"
       /\ Graph(procs[p].root) \in CompleteGraphs(procs[p].g)

\* Both goroutines hold the root of the same rule object type at once, and
\* another type has been scanned meanwhile.
C16_Witness ==
  /\ procs # << >>
  /\ \A p \in Procs : p \in Holders /\ procs[p].g.type = "mixedGrammar"
  /\ Len(heap) >= 2

\* The scanners whose root is in the cache.
Published == {i \in 1..Len(heap) : \E t \in DOMAIN cache : cache[t].scan = i}

\* What of a scanner's symbols and rules is to stay as it is.
Frozen(types) ==
  [k \in DOMAIN types |->
     [Nullable |-> types[k].Nullable,
      TokenType |-> types[k].TokenType,
      Predictions |-> [i \in 1..Len(types[k].Predictions) |->
                         [Implements |-> types[k].Predictions[i].Implements,
                          Deps |-> types[k].Predictions[i].Deps,
                          Index |-> types[k].Predictions[i].Index]]]]

\* C17: a published graph is never changed.  Once a scanner's root is in
\* the cache, no step of any goroutine (m.run, m.builder, b.build, the
\* evaluation of the rule actions, a scan for another rule object type, a
\* further lookup) changes the Nullable, TokenType or Predictions of one of
\* its symbols or the Implements, Deps or Index of one of its rules.
C17_PublishedFrozen ==
  [][\A i \in Published : Frozen(heap'[i].sc.types) = Frozen(heap[i].sc.types)]_vars

\* Two graphs are published, and a goroutine has evaluated the rule actions
\* of a parse on one of them.
C17_Witness ==
  /\ Cardinality(Published) = 2
  /\ \E p \in DOMAIN procs : procs[p].result # NoValue

\* The calls in the log that returned an error.
FailedCalls == {k \in 1..Len(calls) : calls[k].err # NoErr}

\* C18: errors short-circuit.  When Parse has ended: after a panic of the
\* scan, after an error of the recognizer and after a failure of the
\* builder's search nothing was invoked, neither a rule method nor the
\* Parse hook, and Parse returns the zero value; when a rule method returned
\* an error, it is the last thing invoked (no later rule method, no hook),
\* and Parse returns the zero value with that error, the first one met.
C18_ShortCircuit ==
  /\ pc = "panic" => calls = <<>>
  /\ Finished /\ (Rejected \/ err = ErrFailedMatch \/ pc = "crashed") =>
       calls = <<>> /\ result = NoValue
  /\ pc = "done" =>
       \A k \in FailedCalls :
         calls[k].kind = "action" =>
           /\ k = Len(calls)
           /\ \A j \in 1..Len(calls) : calls[j].kind # "hook"
           /\ err = calls[k].err
           /\ result = NoValue

\* A rule method failed after others had succeeded, on an input with two
\* integers that Int rejects.
C18_Witness ==
  /\ pc = "done"
  /\ g = checkedGrammar
  /\ Len(m.toks) = 5
  /\ Len(calls) >= 2
  /\ calls[Len(calls)].err # NoErr
  /\ calls[Len(calls)].kind = "action"

RECURSIVE InLang(_, _), InRepeat(_, _)
\* The string s belongs to the language of the tree e: empty stands for the
\* empty string, match for one rune of its range, seq for a string of the
\* left followed by one of the right, choice for either, repeat for one or
\* more strings of the repeated in a row, nest for the nested.
InLang(e, s) ==
  IF e.op = "empty" THEN s = <<>>
  ELSE IF e.op = "match" THEN Len(s) = 1 /\ e.lo <= s[1] /\ s[1] <= e.hi
  ELSE IF e.op = "seq" THEN
    \E i \in 0..Len(s) : /\ InLang(e.kids[1], SubSeq(s, 1, i))
                         /\ InLang(e.kids[2], SubSeq(s, i + 1, Len(s)))
  ELSE IF e.op = "choice" THEN InLang(e.kids[1], s) \/ InLang(e.kids[2], s)
  ELSE IF e.op = "repeat" THEN InRepeat(e.kids[1], s)
  ELSE InLang(e.kids[1], s)

\* One or more strings of e in a row make up s.
InRepeat(e, s) ==
  \/ InLang(e, s)
  \/ \E i \in 1..(Len(s) - 1) : /\ InLang(e, SubSeq(s, 1, i))
                                /\ InRepeat(e, SubSeq(s, i + 1, Len(s)))

\* The state Regex made final.
EndOf(p) == p.finalStates[1].Given

\* C19: regex lowering preserves the language.  Once the tree is compiled
\* from state 0 to the final state, that state is live after a stream has
\* consumed exactly a string, from state 0, if and only if the string
\* belongs to the tree's language; for every string over the alphabet.
C19_LanguagePreserved ==
  rpc = "compiled" =>
    \A s \in Strings : (EndOf(rprog) \in LiveAtEnd(rprog, s)) <=> InLang(re, s)

\* The tree of (a|b+)+ as ParseQuantifier and ParseGroup build it has been
\* compiled.
C19_Witness ==
  /\ rpc = "compiled"
  /\ re = repeat(nest(choice(match(97, 97), repeat(match(98, 98)))))

\* The ranges of the sequence rs cover the code point c.
Covers(rs, c) == \E i \in 1..Len(rs) : rs[i].start <= c /\ c <= rs[i].end

\* One code point of every stretch of 0..MaxRune over which neither the
\* ranges drawn nor the ranges inverse makes of them begin or end.
Probes == Codepoints \cup {3, MaxRune - 2}

\* C20: the negated character class.  The ranges charset.inverse returns
\* cover exactly the code points of 0..MaxRune that no range of the list
\* covers.
C20_InverseIsComplement ==
  rpc = "inverted" => \A c \in Probes : Covers(rinv, c) <=> ~Covers(cs, c)

\* The tokens of a juxtaposition of n characters.
SeqInput(n) == [i \in 1..n |-> [type |-> "char", val |-> i]]

\* The tokens of an alternation of n characters: c | c | ... | c.
ChoiceInput(n) ==
  [i \in 1..(2 * n - 1) |->
     [type |-> IF i % 2 = 1 THEN "char" ELSE "bar", val |-> i]]

RegexNode(name, args) ==
  [kind |-> "node", name |-> name, host |-> "regexRules", val |-> 0,
   args |-> args]

CharNode(i) == RegexNode("ParseChar", << TokValue([type |-> "char", val |-> i]) >>)

RECURSIVE RightSeq(_, _)
\* seq(c_i, seq(c_{i+1}, ... seq(c_{n-1}, c_n)))
RightSeq(i, n) ==
  IF i = n THEN CharNode(n)
  ELSE RegexNode("ParseSeq", << CharNode(i), RightSeq(i + 1, n) >>)

RECURSIVE LeftChoice(_)
\* choice(...choice(choice(c_1, c_2), c_3)..., c_n), n >= 2
LeftChoice(n) ==
  IF n = 2
  THEN RegexNode("ParseChoice",
                 << CharNode(1), TokValue([type |-> "bar", val |-> 2]),
                    CharNode(3) >>)
  ELSE RegexNode("ParseMoreChoice",
                 << LeftChoice(n - 1),
                    TokValue([type |-> "bar", val |-> 2 * n - 2]),
                    CharNode(2 * n - 1) >>)

\* The n >= 3 whose juxtaposition, and whose alternation, fits the inputs.
SeqCounts == 3..MaxTestToks

ChoiceCounts == {n \in 3..MaxTestToks : 2 * n - 1 <= MaxTestToks}

\* C21: associativity of the regex syntax.  Under regexRules a
\* juxtaposition of n >= 3 characters parses to the right-nested seq, and an
\* alternation of n >= 3 characters to the left-nested choice.
C21_Associativity ==
  /\ \A n \in SeqCounts :
       (Finished /\ g = regexRules /\ m.toks = SeqInput(n)) =>
         (pc = "done" /\ err = NoErr /\ result = RightSeq(1, n))
  /\ \A n \in ChoiceCounts :
       (Finished /\ g = regexRules /\ m.toks = ChoiceInput(n)) =>
         (pc = "done" /\ err = NoErr /\ result = LeftChoice(n))

\* abcd has been parsed.
C21_Witness ==
  /\ pc = "done"
  /\ g = regexRules
  /\ m.toks = SeqInput(4)

\* The rule methods of a rule object: Parse is not one.
RuleMethods(ro) ==
  {ro.methods[i] : i \in {j \in 1..Len(ro.methods) : ro.methods[j].Name # "Parse"}}

\* The types a rule object names: its start symbol, the parameters and the
\* results of its rule methods.
TypesNamed(ro) ==
  ({ro.root} \cup UNION {{r.In[j] : j \in 1..Len(r.In)} \cup {r.Out} :
                          r \in RuleMethods(ro)}) \ {NoType}

RECURSIVE TypesReached(_)
\* The types named by the rule object, by the elements of the slices and by
\* the helper grammars of the types in S, to the fixed point.
TypesReached(S) ==
  LET more == S \cup {Elem(t) : t \in {u \in S : Kind(u) = "slice"}}
                \cup UNION {TypesNamed(GrammarOf(t)) : t \in S}
  IN IF more = S THEN S ELSE TypesReached(more)

\* Some rule, of the rule object or of a helper grammar it reaches, returns
\* a slice.
HasSliceRule(ro) ==
  \/ \E r \in RuleMethods(ro) : Kind(r.Out) = "slice"
  \/ \E t \in TypesReached(TypesNamed(ro)) :
       \E r \in RuleMethods(GrammarOf(t)) : Kind(r.Out) = "slice"

\* The rule object of a type.
RuleObjectOf(type) == CHOOSE ro \in CacheGrammars : ro.type = type

\* C22: a rule whose result is a slice, on the rule object or on a helper
\* grammar, makes every scan of the rule object panic in scanMethods: the
\* scan never gets past it, no root is stored in the cache for the type,
\* and no Parse with the type gets as far as the recognizer, however many
\* calls came before.
C22_SliceRuleRejected ==
  /\ \A id \in 1..Len(heap) :
       HasSliceRule(RuleObjectOf(heap[id].type)) =>
         heap[id].stage \in {"new", "panicked"}
  /\ \A ro \in CacheGrammars :
       HasSliceRule(ro) => ro.type \notin DOMAIN cache
  /\ \A p \in Procs :
       (procs[p].pc # "idle" /\ HasSliceRule(procs[p].g)) =>
         procs[p].pc \in {"lock", "lookup", "scanMethods", "panic"}

\* A goroutine's second Parse with the helper-grammar type has panicked,
\* after its first had.
C22_Witness ==
  \E p \in Procs : \E i \in 1..Len(heap) : \E j \in 1..Len(heap) :
    /\ procs[p].pc = "panic"
    /\ procs[p].g = subSliceGrammar
    /\ heap[i].type = "subSliceGrammar" /\ heap[i].owner = <<p, 1>>
    /\ heap[i].stage = "panicked"
    /\ heap[j].type = "subSliceGrammar" /\ heap[j].owner = <<p, 2>>
    /\ heap[j].stage = "panicked"

\* The start symbol of the rule object has no rule in the graph the scan
\* returned.
StartHasNoRules == g.root \in DOMAIN G /\ G[g.root].Predictions = <<>>

\* C23: a rule object whose start symbol has no productions is rejected by
\* the scan.  Parse never gets past scanGrammar with such a graph, whatever
\* the input is: the recognizer is not run on it.
C23_NoProductionsFatal == pc \notin {"idle", "panic"} => ~StartHasNoRules

\* The items matcher.scan has put into the set opened for the token just
\* read: at the head of the loop of run, nothing else has touched that set.
Scanned == IF pc = "step" /\ m.cur >= 1 THEN m.state[m.cur + 1] ELSE <<>>

\* C24: terminals.  In the graph a scan returns, a symbol carries a
\* TokenType exactly when it has no rule, and the TokenType is the symbol's
\* own type; the recognizer moves an item over a token only where the
\* symbol passed has no rule and the token's type is assignable to it.
C24_TerminalIffNoRules ==
  pc \notin {"idle", "panic"} =>
    /\ \A k \in DOMAIN G :
         /\ G[k].TokenType # NoType <=> G[k].Predictions = <<>>
         /\ G[k].TokenType \in {NoType, k}
    /\ \A i \in 1..Len(Scanned) :
         LET x == Scanned[i]
             passed == x.rule.Deps[x.progress]
         IN /\ G[passed].Predictions = <<>>
            /\ AssignableTo(m.toks[m.cur].type, passed)

\* A token has been scanned under a graph with an interface symbol that
\* has rules and a symbol a helper grammar gave its rules.
C24_Witness ==
  /\ Scanned # <<>>
  /\ \E k \in DOMAIN G : Kind(k) = "interface" /\ G[k].Predictions # <<>>
  /\ \E k \in DOMAIN G : GrammarOf(k).type # NoHost /\ G[k].Predictions # <<>>

\* Item set N, N the number of tokens, holds an item of a rule of the start
\* symbol that began at 0 and has all its dependencies behind it.
AcceptingItemInLast ==
  /\ Len(m.state) = Len(m.toks) + 1
  /\ \E i \in 1..Len(m.state[Len(m.toks) + 1]) :
       LET x == m.state[Len(m.toks) + 1][i]
       IN /\ x.rule.Implements = m.root
          /\ x.position = 0
          /\ x.progress = Len(x.rule.Deps)

\* C25: acceptance.  After finalStep, matcher.run returns nil exactly when
\* item set N holds such an item: Parse goes on to the builder in that case
\* and in no other, and returns run's error otherwise.
C25_Acceptance ==
  /\ pc = "matches" => (matches(m, m.root) = NoErr <=> AcceptingItemInLast)
  /\ pc \in {"builder", "build", "eval", "crashed"} => AcceptingItemInLast
  /\ pc = "done" => (b # NoBuilder <=> AcceptingItemInLast)
  /\ (pc = "done" /\ b = NoBuilder) =>
       err \in {ErrUnexpectedEOF} \cup
               {ErrUnexpectedToken(m.toks[i]) : i \in 1..Len(m.toks)}

\* run has returned nil on an input of three tokens whose last item set also
\* holds an item of the start symbol that began later.
C25_Witness ==
  /\ pc = "done"
  /\ Len(m.toks) = 3
  /\ b # NoBuilder
  /\ \E i \in 1..Len(m.state[4]) :
       m.state[4][i].rule.Implements = m.root /\ m.state[4][i].position > 0

\* C26: the end of a stream is stable.  After a call of Next that returned
\* false and left no error, every later call returns false as well, invokes
\* no constructor, and leaves the cursor and the token of This() as they
\* were, whatever states were live when the earlier call stopped.
C26_EndOfStreamStable ==
  \A k \in 1..Len(hist) :
    (~hist[k].ret /\ hist[k].err = NoLexErr) =>
      \A j \in (k + 1)..Len(hist) :
        /\ ~hist[j].ret
        /\ hist[j].final = -1
        /\ hist[j].after = hist[k].after
        /\ hist[j].tok = hist[k].tok

\* C27: the builder terminates.  The span search of builder.build returns
\* for every graph and every input the recognizer accepted: no call of
\* findSpan is entered again with the arguments of a call still running.
C27_BuilderTerminates == pc = "build" => ~build(G, b).overflow

RECURSIVE SumOver(_, _)
\* The sum of f over the set S.
SumOver(f, S) ==
  IF S = {} THEN 0
  ELSE LET x == CHOOSE y \in S : TRUE IN f[x] + SumOver(f, S \ {x})

\* The number of items there can be in item set cur: a rule of the graph,
\* an origin from 0 to cur and a progress from 0 to the number of the
\* rule's dependencies.
ItemBound(graph, cur) ==
  LET perSymbol ==
        [k \in DOMAIN graph |->
           LET rs == graph[k].Predictions
           IN SumOver([i \in 1..Len(rs) |-> Len(rs[i].Deps) + 1], 1..Len(rs))]
  IN (cur + 1) * SumOver(perSymbol, DOMAIN graph)

RECURSIVE StepLoop(_, _, _, _, _)
\* The loop of matcher.step from index i, counted: whether it comes to its
\* end within the given number of turns.
StepLoop(graph, mm, tok, i, turns) ==
  IF i > Len(mm.state[mm.cur + 1]) THEN TRUE
  ELSE IF turns = 0 THEN FALSE
  ELSE LET x == mm.state[mm.cur + 1][i]
       IN IF complete(x)
          THEN StepLoop(graph, completeItem(mm, x), tok, i + 1, turns - 1)
          ELSE LET next == nextSymbol(x)
               IN IF graph[next].TokenType # NoType
                  THEN IF TokenFits(graph, tok, next)
                       THEN StepLoop(graph, scanItem(mm, x), tok, i + 1,
                                     turns - 1)
                       ELSE StepLoop(graph, mm, tok, i + 1, turns - 1)
                  ELSE LET m1 == IF graph[next].Nullable THEN advance(mm, x)
                                 ELSE mm
                       IN StepLoop(graph, predict(graph, m1, next), tok,
                                   i + 1, turns - 1)

RECURSIVE FinalStepLoop(_, _, _, _)
\* The loop of matcher.finalStep, counted in the same way.
FinalStepLoop(graph, mm, i, turns) ==
  IF i > Len(mm.state[mm.cur + 1]) THEN TRUE
  ELSE IF turns = 0 THEN FALSE
  ELSE LET x == mm.state[mm.cur + 1][i]
       IN IF complete(x)
          THEN FinalStepLoop(graph, completeItem(mm, x), i + 1, turns - 1)
          ELSE LET next == nextSymbol(x)
               IN IF graph[next].Nullable
                  THEN FinalStepLoop(graph,
                                     predict(graph, advance(mm, x), next),
                                     i + 1, turns - 1)
                  ELSE FinalStepLoop(graph, mm, i + 1, turns - 1)

\* C28: the recognizer terminates.  Wherever run is about to call step or
\* finalStep, the loop of that call comes to its end within as many turns
\* as there are items for the current position: every turn looks at one
\* item of the current set, and the set holds no item twice.
C28_RecognizerTerminates ==
  pc = "step" =>
    IF m.cur < Len(m.toks)
    THEN StepLoop(G, [m EXCEPT !.state = Append(@, <<>>)], m.toks[m.cur + 1],
                  1, ItemBound(G, m.cur))
    ELSE FinalStepLoop(G, m, 1, ItemBound(G, m.cur))

\* step is about to run on the third token of an input under a graph with
\* a left-recursive rule and a nullable symbol.
C28_Witness ==
  /\ pc = "step"
  /\ m.cur = 2
  /\ Len(m.toks) > 2
  /\ \E k \in DOMAIN G : G[k].Nullable
  /\ \E k \in DOMAIN G : \E i \in 1..Len(G[k].Predictions) :
       /\ G[k].Predictions[i].Deps # <<>>
       /\ G[k].Predictions[i].Deps[1] = k

\* The items of the chart.
ChartItems == UNION {{m.state[k][i] : i \in 1..Len(m.state[k])} : k \in 1..Len(m.state)}

\* C29: the item sets hold no item twice.  In every state of the
\* recognizer no set has two equal items; addTo with an item the set holds
\* changes nothing; addTo with an item the set does not hold puts it behind
\* the items already there, which stay as they are and where they are.
C29_DuplicateFree ==
  \A k \in 1..Len(m.state) :
    LET set == m.state[k]
    IN /\ \A i \in 1..Len(set) : \A j \in 1..Len(set) :
            set[i] = set[j] => i = j
       /\ \A i \in 1..Len(set) : addTo(m, k - 1, set[i]) = m
       /\ \A x \in ChartItems :
            (\A i \in 1..Len(set) : set[i] # x) =>
              addTo(m, k - 1, x) = [m EXCEPT !.state[k] = Append(set, x)]

\* The recognizer has met an item set in which two items stand before the
\* same symbol, a symbol with rules: the second prediction of that symbol
\* added nothing.
C29_Witness ==
  /\ pc = "matches"
  /\ \E k \in 1..Len(m.state) :
       \E i \in 1..Len(m.state[k]) : \E j \in 1..Len(m.state[k]) :
         /\ i < j
         /\ ~complete(m.state[k][i])
         /\ ~complete(m.state[k][j])
         /\ nextSymbol(m.state[k][i]) = nextSymbol(m.state[k][j])
         /\ G[nextSymbol(m.state[k][i])].Predictions # <<>>

\* C30: host binding.  The rule methods a call of Parse invokes are invoked
\* on the rule object the call was handed (those of a helper grammar on
\* the object of its Grammar method), whichever rule object of the type an
\* earlier call was handed.
C30_HostIsRuleObject ==
  \A p \in Procs : \A h \in procs[p].on : h.inst \in {0, procs[p].inst}

RECURSIVE SpanValue(_)
\* The value of a span whose actions all succeed: the token of a terminal
\* span, the action of a rule span applied to the values of its children.
SpanValue(s) ==
  IF s.isTok
  THEN [kind |-> "tok", name |-> s.value.type, host |-> NoHost,
        val |-> s.value.val, args |-> <<>>]
  ELSE CallMethod(s.item.rule,
                  [i \in 1..Len(s.children) |-> SpanValue(s.children[i])])

RECURSIVE ActionsOf(_)
\* The actions of the rule spans of a tree, each once, those of a span's
\* children from the left to the right before the span's own, with the
\* error each returns on the values of its children.
ActionsOf(s) ==
  IF s.isTok THEN <<>>
  ELSE LET n == Len(s.children)
           args == [i \in 1..n |-> SpanValue(s.children[i])]
       IN Concat([i \in 1..n |-> ActionsOf(s.children[i])], [i \in 1..n |-> i])
          \o << [name |-> s.item.rule.Name,
                 err |-> MethodErr(s.item.rule, args)] >>

\* The actions up to the first that returns an error, that one included.
UpToFirstError(acts) ==
  LET failed == {k \in 1..Len(acts) : acts[k].err # NoErr}
  IN IF failed = {} THEN acts
     ELSE SubSeq(acts, 1, CHOOSE k \in failed : \A j \in failed : k <= j)

\* The rule methods Parse invoked, in the order of their invocation.
ActionsRun ==
  LET a == SelectSeq(calls, LAMBDA c : c.kind = "action")
  IN [k \in 1..Len(a) |-> [name |-> a[k].name, err |-> a[k].err]]

\* C31: evaluation of the actions.  When Parse has evaluated the span tree,
\* the rule methods it invoked are those of the tree's rule spans, each
\* once, children before their parent and from the left to the right, up
\* to the first that returned an error; without an error the value handed
\* to the Parse hook is the tree's value, every action applied to the
\* values of its children and every terminal span standing for its token;
\* with an error Parse returns that error and the zero value, and neither
\* a later action nor the hook has run.
C31_ActionEvaluation ==
  (pc = "done" /\ tree # NoSpan) =>
    LET acts == ActionsOf(tree)
        ran == UpToFirstError(acts)
    IN /\ ActionsRun = ran
       /\ IF ran = acts /\ (acts = <<>> \/ acts[Len(acts)].err = NoErr)
          THEN /\ Len(calls) = Len(acts) + 1
               /\ calls[Len(calls)].kind = "hook"
               /\ err = Hook(g, SpanValue(tree)).err
               /\ result = Hook(g, SpanValue(tree)).value
          ELSE /\ Len(calls) = Len(ran)
               /\ err = ran[Len(ran)].err
               /\ result = NoValue

\* An action returned an error after another had run, and later siblings
\* and ancestors among the actions of the tree were left out.
C31_Witness ==
  /\ pc = "done"
  /\ tree # NoSpan
  /\ Len(calls) = 2
  /\ calls[Len(calls)].kind = "action"
  /\ calls[Len(calls)].err # NoErr
  /\ Len(ActionsOf(tree)) >= 5

(***************************************************************************)
(* Interface expansion.                                                    *)
(***************************************************************************)
\* The runs of fillOutInterfaces a scan of ro can make, each with the
\* graph it leaves and the interfaces it filled, in order.
Expansions(ro) ==
  LET s1 == scanMethods(ensure(NewScanner(ro), ro.root), ro)
      withRules == {k \in DOMAIN s1.types : Len(s1.types[k].Predictions) > 0}
  IN IF s1.panicked THEN {}
     ELSE UNION { fillOutInterfaces(markNullableTypes(s1.types, order), s1.next) :
                  order \in RangeOrders(withRules) }

\* c is what fillOutInterface appends to itf for r: a new rule with r's
\* Deps, Host, Name, Index and Method.
IsCopyOf(c, r, itf) == c = [r EXCEPT !.Implements = itf, !.ptr = c.ptr]

\* Every interface symbol of the graph holds a copy of every rule of every
\* other symbol assignable to it.
HoldsCopies(types) ==
  \A itf \in DOMAIN types :
    Kind(itf) = "interface" =>
      \A k \in DOMAIN types :
        (k # itf /\ AssignableTo(k, itf)) =>
          \A i \in DOMAIN types[k].Predictions :
            \E j \in DOMAIN types[itf].Predictions :
              IsCopyOf(types[itf].Predictions[j], types[k].Predictions[i], itf)

\* Each interface symbol of the graph is in the list once.
EachOnce(filled, types) ==
  /\ \A i, j \in DOMAIN filled : filled[i] = filled[j] => i = j
  /\ {filled[i] : i \in DOMAIN filled}
       = {k \in DOMAIN types : Kind(k) = "interface"}

\* C32: after the scan every interface symbol holds a copy, with the same
\* dependencies, host, name, index and method, of every rule of every
\* scanned symbol whose type is assignable to the interface, the rules such
\* a symbol holds as copies included, whatever order the loops over the
\* type map took; and every run of the expansion ends having filled each
\* interface once, two mutually assignable interfaces included.
C32_InterfaceExpansion ==
  /\ pc = "run" => HoldsCopies(G)
  /\ pc = "idle" =>
       \A f \in Expansions(g) : HoldsCopies(f.types) /\ EachOnce(f.filled, f.types)

\* A scan has ended with two interfaces that are assignable to each other,
\* both with rules of their own, and with a third symbol assignable to both.
C32_Witness ==
  /\ pc = "run"
  /\ \E a, c \in DOMAIN G : \E k \in DOMAIN G :
       /\ a # c /\ Kind(a) = "interface" /\ Kind(c) = "interface"
       /\ AssignableTo(a, c) /\ AssignableTo(c, a)
       /\ k \notin {a, c} /\ AssignableTo(k, a) /\ AssignableTo(k, c)
       /\ Len(G[k].Predictions) > 0
       /\ \E i \in DOMAIN G[a].Predictions : G[a].Predictions[i].ptr < 3
       /\ \E i \in DOMAIN G[c].Predictions : G[c].Predictions[i].ptr < 3

(***************************************************************************)
(* Empty transitions.                                                      *)
(***************************************************************************)
NoDuplicatePairs(ts) == \A i, j \in DOMAIN ts : ts[i] = ts[j] => i = j

\* (a, b) and (b, c) in the list: (a, c) is in it.
TransitivePairs(ts) ==
  \A i, j \in DOMAIN ts :
    ts[i].Then = ts[j].Given =>
      Contains(ts, CloseTransition(ts[i].Given, ts[j].Then))

\* The states closeState leaves live when the states S are live before it.
LiveAfterClose(p, S) ==
  LET this == closeState(p, [i \in 0..p.maxState |-> i \in S])
  IN {i \in 0..p.maxState : this[i]}

\* C33: whatever calls of Empty a lexer was declared by, cycles and
\* self-loops among them, each call returns, closeTransitions holds no pair
\* twice, and with (a, b) and (b, c) it holds (a, c); so one pass of
\* closeState over any set of live states makes live every state an epsilon
\* path leads to from one of them.
C33_EmptyClosure ==
  lpc = "new" =>
    /\ NoDuplicatePairs(lex.closeTransitions)
    /\ TransitivePairs(lex.closeTransitions)
    /\ \A S \in SUBSET (0..lex.maxState) : LiveAfterClose(lex, S) = ClosureOf(lex, S)

\* A lexer declared by three calls of Empty that close a cycle, which Empty
\* has added pairs to, a self-loop among them.
C33_Witness ==
  /\ lpc = "new"
  /\ IsEmptyLexer(lex)
  /\ Len(lex.closeTransitions) > MaxEmpties
  /\ \E a, c \in 0..lex.maxState :
       /\ a # c
       /\ Contains(lex.closeTransitions, CloseTransition(a, c))
       /\ Contains(lex.closeTransitions, CloseTransition(c, a))
       /\ Contains(lex.closeTransitions, CloseTransition(a, a))

\* The input from the cursor of call k on has no non-empty prefix that
\* takes the automaton from state 0 to a final state.
Unlexable(k) == FinalEnds(lex, stream.src, hist[k].before) = {}

\* The token of This() before call k.
TokBefore(k) == IF k = 1 THEN NoTok ELSE hist[k - 1].tok

\* C34: un-lexable input.  When the stream has no error and no non-empty
\* prefix of the input from the cursor on reaches a final state, Next
\* returns false, Err() stays nil, no constructor is invoked, and the cursor
\* and the token of This() stay as they were; a call of Force that comes to
\* such a cursor returns the tokens emitted so far and a nil error.
C34_Unlexable ==
  /\ \A k \in 1..Len(hist) :
       (hist[k].ran /\ Unlexable(k)) =>
         /\ ~hist[k].ret
         /\ hist[k].err = NoLexErr
         /\ hist[k].final = -1
         /\ hist[k].after = hist[k].before
         /\ hist[k].tok = TokBefore(k)
  /\ forced.called =>
       \A k \in (forced.from + 1)..forced.to :
         (hist[k].ran /\ Unlexable(k)) =>
           /\ k = forced.to
           /\ forced.err = NoLexErr
           /\ forced.toks = TokensOf(forced.from, forced.to)

(***************************************************************************)
(* Sub-grammars.                                                           *)
(***************************************************************************)
\* The scanner once scanMethods is through with the rule object ro.
Discovered(ro) == scanMethods(ensure(NewScanner(ro), ro.root), ro)

\* The rules of the graph made from method i (0-based) of the rule object
\* host, the copies held by interfaces left out.
RulesMadeFrom(graph, host, i) ==
  { kj \in UNION { {k} \X DOMAIN graph[k].Predictions : k \in DOMAIN graph } :
      LET r == graph[kj[1]].Predictions[kj[2]]
      IN /\ r.Host = host.type
         /\ r.Index = i
         /\ r.Name = host.methods[i + 1].Name
         /\ r.Implements = host.methods[i + 1].Out }

\* The types of the graph with a Grammar method.
WithGrammar(graph) == {t \in DOMAIN graph : GrammarOf(t).type # NoHost}

\* C35: sub-grammar discovery.  In one scan the Grammar method of a type is
\* invoked at most once (exactly once for a type that became a symbol), each
\* rule method of the object it returns is made a rule once, also for a
\* type named in several rules or in a rule of its own sub-grammar, and
\* every dependency names a symbol of the graph, one for each type.
C35_SubGrammarOnce ==
  pc = "run" =>
    /\ \A t \in WithGrammar(G) :
         /\ Len(SelectSeq(Discovered(g).grammarCalls, LAMBDA c : c = t)) = 1
         /\ \A i \in 0..(Len(GrammarOf(t).methods) - 1) :
              GrammarOf(t).methods[i + 1].Name # "Parse" =>
                Cardinality(RulesMadeFrom(G, GrammarOf(t), i)) = 1
    /\ \A c \in DOMAIN Discovered(g).grammarCalls :
         Discovered(g).grammarCalls[c] \in WithGrammar(G)
    /\ \A k \in DOMAIN G : \A j \in DOMAIN G[k].Predictions :
         \A d \in DOMAIN G[k].Predictions[j].Deps :
           G[k].Predictions[j].Deps[d] \in DOMAIN G

\* A scan has met a type with a Grammar method in two rules of the rule
\* object and in a rule of the type's own sub-grammar.
C35_Witness ==
  /\ pc = "run"
  /\ \E t \in WithGrammar(G) :
       /\ Cardinality({ i \in DOMAIN g.methods :
                          g.methods[i].Name # "Parse"
                          /\ Contains(g.methods[i].In, t) }) >= 2
       /\ \E i \in DOMAIN GrammarOf(t).methods :
            Contains(GrammarOf(t).methods[i].In, t)

\* Some final state is live in the closure of state 0: the automaton
\* accepts the empty text.
AcceptsEmpty(p) ==
  \E i \in DOMAIN p.finalStates : p.finalStates[i].Given \in ClosureOf(p, {0})

\* C36: lexer progress.  Every call of Next that returns true, the next one
\* the stream would make included, leaves the cursor at least one byte
\* beyond where it was, the cursor never passes the end of the input, and a
\* call of Force returns at most as many tokens as the input has bytes,
\* also when the initial state reaches a final state by empty transitions.
C36_LexerProgress ==
  /\ \A k \in 1..Len(hist) :
       /\ hist[k].before <= hist[k].after
       /\ hist[k].after <= Len(stream.src)
       /\ hist[k].ret => hist[k].after >= hist[k].before + 1
  /\ stream.srcPos <= Len(stream.src)
  /\ lpc = "ready" =>
       LET n == NextOf(lex, stream).rec
       IN /\ n.after <= Len(stream.src)
          /\ n.ret => n.after >= n.before + 1
  /\ forced.called =>
       /\ Len(forced.toks) <= Len(stream.src)
       /\ forced.to - forced.from <= Len(stream.src) + 1

\* Force has returned two tokens from a lexer whose initial state reaches a
\* final state by an empty transition.
C36_Witness ==
  /\ forced.called
  /\ Len(forced.toks) >= 2
  /\ AcceptsEmpty(lex)
  /\ lex.closeTransitions # <<>>

(***************************************************************************)
(* The span tree.                                                          *)
(***************************************************************************)
RECURSIVE Leaves(_)
\* The token spans of a tree from the left to the right.
Leaves(s) ==
  IF s.isTok THEN << s >>
  ELSE Concat([i \in 1..Len(s.children) |-> Leaves(s.children[i])],
              [i \in 1..Len(s.children) |-> i])

\* Where a span ends: a token span one beyond its place, a rule span at its
\* item's position.
SpanEnd(s) == IF s.isTok THEN s.at + 1 ELSE s.item.position

RECURSIVE Contiguous(_)
\* The children of every rule span of the tree follow one another from the
\* span's start to its end without a gap.
Contiguous(s) ==
  s.isTok \/
    LET n == Len(s.children)
    IN /\ IF n = 0 THEN s.at = SpanEnd(s)
          ELSE /\ s.children[1].at = s.at
               /\ SpanEnd(s.children[n]) = SpanEnd(s)
       /\ \A i \in 1..(n - 1) : s.children[i + 1].at = SpanEnd(s.children[i])
       /\ \A i \in 1..n : Contiguous(s.children[i])

\* C37: span yield.  The token spans of the tree build returns for an
\* accepted input of N tokens are, from left to right, the tokens t[0] to
\* t[N-1] at the places 0 to N-1, each once, and the children of every rule
\* span cover the range from the span's start to its item's end position
\* without a gap, the tree itself the whole input.
C37_SpanYield ==
  tree # NoSpan =>
    /\ Leaves(tree) = [i \in 1..Len(m.toks) |-> TokSpan(m.toks[i], i - 1)]
    /\ Contiguous(tree)
    /\ tree.at = 0
    /\ SpanEnd(tree) = Len(m.toks)

\* build has returned a tree over four tokens or more in which a child of
\* the top span is a rule span with a rule span among its own children.
C37_Witness ==
  /\ tree # NoSpan
  /\ Len(m.toks) >= 4
  /\ \E i \in DOMAIN tree.children :
       /\ ~tree.children[i].isTok
       /\ \E j \in DOMAIN tree.children[i].children :
            ~tree.children[i].children[j].isTok

(***************************************************************************)
(* Empty item sets.                                                        *)
(***************************************************************************)
\* Every item set after an empty set among 1..N is empty.
SuffixClosed(state) ==
  \A k \in 1..(Len(state) - 1) :
    Len(state[k + 1]) = 0 =>
      \A j \in (k + 1)..(Len(state) - 1) : Len(state[j + 1]) = 0

\* matches with the search for the first empty set made whatever the last
\* set holds.
matchesAllSets(mm, root) ==
  LET n == Len(mm.state)
      empties == {i \in 0..(n - 2) : Len(mm.state[i + 2]) = 0}
      first == CHOOSE i \in empties : \A j \in empties : i <= j
  IN IF empties # {}
     THEN ErrUnexpectedToken(mm.toks[first + 1])
     ELSE IF \E i \in 1..Len(mm.state[n]) : Accepting(mm.state[n][i], root)
     THEN NoErr
     ELSE ErrUnexpectedEOF

\* C38: the empty item sets are a suffix.  In every state of the
\* recognizer, once a set k >= 1 is empty every later set is empty, so
\* matches, which looks for the first empty set only when the last set is
\* empty, returns what a search through all the sets would return.
C38_EmptySetsSuffix ==
  /\ SuffixClosed(m.state)
  /\ pc \in {"matches", "builder", "done"} =>
       matches(m, m.root) = matchesAllSets(m, m.root)

\* The recognizer is through with an input whose second token left the item
\* set empty, with two more sets after it.
C38_Witness ==
  /\ pc = "matches"
  /\ Len(m.toks) >= 4
  /\ Len(m.state[2]) > 0
  /\ Len(m.state[3]) = 0

====
